---- MODULE Spec2Model ----
(***************************************************************************)
(* A state-machine model of the Game Boy emulator core: the interrupt      *)
(* latch, the memory bus with its PPU-mode gates, the OAM DMA engine, the  *)
(* divider/timer and the CPU's fetch and interrupt-servicing cycles.       *)
(*                                                                         *)
(* The hardware aggregate (struct Hardware) is the record hw, the CPU      *)
(* (struct Cpu) the record cpu.  Every method of the source is an operator *)
(* from a record to the updated record, so that a handler which calls      *)
(* several methods in a row is the composition of their operators.         *)
(* hist holds history variables only: what the last operation was and what *)
(* the state was before it.                                                *)
(***************************************************************************)
EXTENDS Naturals, Integers, Sequences, FiniteSets, TLC

VARIABLES hw, cpu, hist

vars == <<hw, cpu, hist>>

----------------------------------------------------------------------------
(* Fixed-width integer helpers (u8 / u16 arithmetic of the source).        *)

RECURSIVE BitAndN(_, _, _)
BitAndN(a, b, w) ==
  IF w = 0 \/ a = 0 \/ b = 0 THEN 0
  ELSE (a % 2) * (b % 2) + 2 * BitAndN(a \div 2, b \div 2, w - 1)

\* a & b on values of at most 16 bits
BitAnd(a, b) == BitAndN(a, b, 16)

RECURSIVE BitOrN(_, _, _)
BitOrN(a, b, w) ==
  IF w = 0 THEN 0
  ELSE IF a = 0 THEN b
  ELSE IF b = 0 THEN a
  ELSE (IF (a % 2) + (b % 2) > 0 THEN 1 ELSE 0) + 2 * BitOrN(a \div 2, b \div 2, w - 1)

\* a | b on values of at most 16 bits
BitOr(a, b) == BitOrN(a, b, 16)

\* !mask on a u8
BitNot8(m) == 255 - m

\* is_flag_set!(num, mask): (num & mask) == mask
is_flag_set(num, mask) == BitAnd(num, mask) = mask

\* add_flag!(num, mask): num |= mask
add_flag(num, mask) == BitOr(num, mask)

\* remove_flag!(num, mask): num &= !mask   (u8)
remove_flag(num, mask) == BitAnd(num, BitNot8(mask))

\* u8 / u16 wrapping arithmetic
wrapping_add8(a, b) == (a + b) % 256
wrapping_add16(a, b) == (a + b) % 65536
wrapping_sub16(a, b) == (a + 65536 - b) % 65536
wrapping_sub8(a, b) == (a - b + 256) % 256

\* A zero-initialised array is kept as the function of its non-zero cells.
ArrayGet(arr, i) == IF i \in DOMAIN arr THEN arr[i] ELSE 0

ArraySet(arr, i, v) ==
  IF v = 0
  THEN [x \in (DOMAIN arr) \ {i} |-> arr[x]]
  ELSE [x \in (DOMAIN arr) \cup {i} |-> IF x = i THEN v ELSE arr[x]]

EmptyArray == [x \in {} |-> 0]

----------------------------------------------------------------------------
(* Interrupt latch (interrupts.rs).  An Interrupt is its bit mask; 0 is    *)
(* Option::None.                                                           *)

VBlank == 1
Lcd == 2
TimerInt == 4
Serial == 8
JoypadInt == 16

Interrupts_new == [requested |-> 0, enabled |-> 0]

set_enabled(i, value) == [i EXCEPT !.enabled = value]

enabled_bitfield(i) == i.enabled

request_interrupt(i, interrupt) ==
  [i EXCEPT !.requested = add_flag(i.requested, interrupt)]

set_requested(i, value) == [i EXCEPT !.requested = BitAnd(value, 31)]

Interrupts_clear_interrupt(i, interrupt) ==
  [i EXCEPT !.requested = remove_flag(i.requested, interrupt)]

requested_bitfield(i) == BitOr(i.requested, 224)

pending_bitfield(i) ==
  BitAnd(BitAnd(enabled_bitfield(i), requested_bitfield(i)), 31)

next_interrupt_from_bitfield(bitfield) ==
  LET pending == BitAnd(bitfield, 31)
  IN  IF is_flag_set(pending, VBlank) THEN VBlank
      ELSE IF is_flag_set(pending, Lcd) THEN Lcd
      ELSE IF is_flag_set(pending, TimerInt) THEN TimerInt
      ELSE IF is_flag_set(pending, Serial) THEN Serial
      ELSE IF is_flag_set(pending, JoypadInt) THEN JoypadInt
      ELSE 0

RECURSIVE trailing_zeros(_)
trailing_zeros(n) == IF n % 2 = 1 THEN 0 ELSE 1 + trailing_zeros(n \div 2)

to_vector(interrupt) == 64 + trailing_zeros(interrupt) * 8

----------------------------------------------------------------------------
(* Joypad register (hardware/joypad.rs).                                   *)

Joypad_new == [pressed |-> 255, button_group |-> 48]

register_value(j) ==
  LET sel == BitAnd(j.button_group \div 16, 3)
      lo == BitAnd(j.pressed, 15)
      hi == BitAnd(j.pressed, 240) \div 16
  IN  CASE sel = 1 -> lo
        [] sel = 2 -> hi
        [] sel = 0 -> BitAnd(lo, hi)
        [] sel = 3 -> 15

Joypad_read_register(j) == BitOr(BitOr(192, j.button_group), register_value(j))

Joypad_write_register(j, value) == [j EXCEPT !.button_group = BitAnd(value, 48)]

\* pressed after the button's action: a pressed button's bit is 0
press_or_release(j, button, button_state) ==
  [j EXCEPT !.pressed = IF button_state = "Pressed"
                        THEN remove_flag(j.pressed, button)
                        ELSE add_flag(j.pressed, button)]

\* An update that requests the interrupt on any change of the low nibble
update_button_state_any_change(ji, button, button_state) ==
  LET j2 == press_or_release(ji.joypad, button, button_state)
  IN  [joypad |-> j2,
       interrupts |-> IF register_value(ji.joypad) # register_value(j2)
                      THEN request_interrupt(ji.interrupts, JoypadInt)
                      ELSE ji.interrupts]

\* update_button_state on the pair [joypad, interrupts]
update_button_state(ji, button, button_state) ==
  LET j2 == press_or_release(ji.joypad, button, button_state)
  IN  [joypad |-> j2,
       interrupts |-> IF BitAnd(register_value(ji.joypad),
                                BitNot8(register_value(j2))) # 0
                      THEN request_interrupt(ji.interrupts, JoypadInt)
                      ELSE ji.interrupts]

----------------------------------------------------------------------------
(* Divider / timer (hardware/timer.rs).                                    *)

TIMER_ENABLE_MASK == 4

Timer_new ==
  [tima |-> 0, tma |-> 0, tac |-> 0, counter |-> 43980,
   overflowed |-> FALSE, prev_and_result |-> FALSE]

tac_bit_mask(tac) ==
  LET sel == BitAnd(tac, 3)
  IN  CASE sel = 0 -> 512
        [] sel = 1 -> 8
        [] sel = 2 -> 32
        [] sel = 3 -> 128

\* is_flag_set!(tac, TIMER_ENABLE_MASK) & is_flag_set!(counter, tac_bit_mask(tac))
and_result(tac, counter) ==
  is_flag_set(tac, TIMER_ENABLE_MASK) /\ is_flag_set(counter, tac_bit_mask(tac))

\* A timer that counts TIMA up on the rising edge of the AND result
Timer_step_iter_rising(t) ==
  LET c == wrapping_add16(t.counter, 1)
  IN  IF t.overflowed
      THEN [timer |-> [t EXCEPT !.counter = c, !.overflowed = FALSE, !.tima = t.tma],
            irq |-> TRUE]
      ELSE LET curr == and_result(t.tac, c)
               inc == ~t.prev_and_result /\ curr
               ntima == IF inc THEN wrapping_add8(t.tima, 1) ELSE t.tima
           IN  [timer |-> [t EXCEPT !.counter = c,
                                    !.tima = ntima,
                                    !.overflowed = IF inc THEN ntima = 0 ELSE t.overflowed,
                                    !.prev_and_result = curr],
                irq |-> FALSE]

\* One iteration of the loop of Timer::step; irq tells whether it requested
\* the timer interrupt.
Timer_step_iter(t) ==
  LET c == wrapping_add16(t.counter, 1)
  IN  IF t.overflowed
      THEN [timer |-> [t EXCEPT !.counter = c, !.overflowed = FALSE, !.tima = t.tma],
            irq |-> TRUE]
      ELSE LET curr == and_result(t.tac, c)
               inc == t.prev_and_result /\ ~curr
               ntima == IF inc THEN wrapping_add8(t.tima, 1) ELSE t.tima
           IN  [timer |-> [t EXCEPT !.counter = c,
                                    !.tima = ntima,
                                    !.overflowed = IF inc THEN ntima = 0 ELSE t.overflowed,
                                    !.prev_and_result = curr],
                irq |-> FALSE]

\* Timer::step(interrupts, cycles) on the pair [timer, interrupts]
RECURSIVE Timer_step(_, _)
Timer_step(ti, cycles) ==
  IF cycles = 0 THEN ti
  ELSE LET r == Timer_step_iter(ti.timer)
       IN  Timer_step([timer |-> r.timer,
                       interrupts |-> IF r.irq
                                      THEN request_interrupt(ti.interrupts, TimerInt)
                                      ELSE ti.interrupts],
                      cycles - 1)

Timer_read_register(t, address) ==
  CASE address = 65284 -> BitAnd(t.counter, 65280) \div 256
    [] address = 65285 -> t.tima
    [] address = 65286 -> t.tma
    [] address = 65287 -> t.tac

\* A timer whose TIMA write leaves a pending overflow in place
Timer_write_register_keeping_overflow(t, address, value) ==
  CASE address = 65284 -> [t EXCEPT !.counter = 0]
    [] address = 65285 -> [t EXCEPT !.tima = value]
    [] address = 65286 -> [t EXCEPT !.tma = value]
    [] address = 65287 ->
         [t EXCEPT !.prev_and_result = and_result(t.tac, t.counter),
                   !.tac = BitAnd(value, 7)]

\* A timer whose DIV write clears the visible byte of the counter only
Timer_write_register_clearing_div_byte(t, address, value) ==
  CASE address = 65284 -> [t EXCEPT !.counter = BitAnd(t.counter, 255)]
    [] address = 65285 ->
         IF t.overflowed
         THEN [t EXCEPT !.tima = value, !.overflowed = FALSE]
         ELSE [t EXCEPT !.tima = value]
    [] address = 65286 -> [t EXCEPT !.tma = value]
    [] address = 65287 ->
         [t EXCEPT !.prev_and_result = and_result(t.tac, t.counter),
                   !.tac = BitAnd(value, 7)]

\* A timer whose TAC write caches the AND result of the new TAC
Timer_write_register_new_tac_and(t, address, value) ==
  CASE address = 65284 -> [t EXCEPT !.counter = 0]
    [] address = 65285 ->
         IF t.overflowed
         THEN [t EXCEPT !.tima = value, !.overflowed = FALSE]
         ELSE [t EXCEPT !.tima = value]
    [] address = 65286 -> [t EXCEPT !.tma = value]
    [] address = 65287 ->
         [t EXCEPT !.prev_and_result = and_result(BitAnd(value, 7), t.counter),
                   !.tac = BitAnd(value, 7)]

Timer_write_register(t, address, value) ==
  CASE address = 65284 -> [t EXCEPT !.counter = 0]
    [] address = 65285 ->
         IF t.overflowed
         THEN [t EXCEPT !.tima = value, !.overflowed = FALSE]
         ELSE [t EXCEPT !.tima = value]
    [] address = 65286 -> [t EXCEPT !.tma = value]
    [] address = 65287 ->
         [t EXCEPT !.prev_and_result = and_result(t.tac, t.counter),
                   !.tac = BitAnd(value, 7)]

----------------------------------------------------------------------------
(* PPU registers, mode machine and memories (hardware/ppu.rs).             *)

HBlank == 0
VBlankMode == 1
OamScan == 2
PixelTransfer == 3

StatCoincidence == 4
HBlankInterrupt == 8
VBlankInterrupt == 16
OamInterrupt == 32
LycInterrupt == 64

BackgroundDisplay == 1
SpriteDisplay == 2
SpriteDimensions == 4
BackgroundTileMap == 8
BackgroundTileData == 16
WindowDisplay == 32
WindowTileMap == 64
LcdDisplay == 128

\* SpriteAttributes
DmgPalette == 16
XFlip == 32
YFlip == 64
Priority == 128

MAX_SCANLINE_SPRITES == 10

NoDma == [kind |-> "None", ticks |-> 0]
NoRestart == [kind |-> "None", source |-> 0, delay_ticks |-> 0]

\* DmaTransfer::new: a requested transfer
DmaTransfer_new == [kind |-> "Requested", ticks |-> 0]

RestartedDmaTransfer_new(source) ==
  [kind |-> "Some", source |-> source, delay_ticks |-> 0]

Ppu_new ==
  [lcdc |-> 0, stat |-> OamScan, scy |-> 0, scx |-> 0, ly |-> 0, wly |-> 0,
   lyc |-> 0, bgp |-> 0, obp0 |-> 0, obp1 |-> 0, wy |-> 0, wx |-> 0,
   counter |-> 0, dma |-> 0, dma_transfer |-> NoDma,
   restarted_dma_transfer |-> NoRestart,
   memory |-> EmptyArray, oam |-> EmptyArray, buffer |-> EmptyArray]

current_mode(p) == BitAnd(p.stat, 3)

set_current_mode(p, mode) == [p EXCEPT !.stat = BitOr(BitAnd(p.stat, 124), mode)]

display_enabled(p) == is_flag_set(p.lcdc, LcdDisplay)

read_ram(p, address) == ArrayGet(p.memory, address - 32768)

write_ram(p, address, value) ==
  [p EXCEPT !.memory = ArraySet(p.memory, address - 32768, value)]

read_oam(p, address) == ArrayGet(p.oam, address - 65024)

write_oam(p, address, value) ==
  [p EXCEPT !.oam = ArraySet(p.oam, address - 65024, value)]

\* u8 >> bit, & 1
bit_of(byte, bit) == (byte \div 2^bit) % 2

\* (palette >> (raw_pixel * 2)) & 0x03
palette_color(palette, raw_pixel) == (palette \div 4^raw_pixel) % 4

\* Ppu::get_tile_pixel
get_tile_pixel(p, tile_index, row, x) ==
  LET base == IF is_flag_set(p.lcdc, BackgroundTileData) THEN 32768 + tile_index * 16
              ELSE IF tile_index < 128 THEN 36864 + tile_index * 16
              ELSE 34816 + (tile_index - 128) * 16
  IN  bit_of(read_ram(p, base + row * 2 + 1), 7 - (x % 8)) * 2
      + bit_of(read_ram(p, base + row * 2), 7 - (x % 8))

\* Ppu::get_sprite_pixel
get_sprite_pixel(p, tile_index, row, x, flip_x) ==
  LET base == 32768 + tile_index * 16 + row * 2
      bit  == IF flip_x THEN x ELSE 7 - x
  IN  bit_of(read_ram(p, base + 1), bit) * 2 + bit_of(read_ram(p, base), bit)

\* A scanline is a function on the screen columns; let mut scanline = [0; 160]
Columns == 0..159

BlankLine == [x \in Columns |-> 0]

\* Ppu::render_background, the pixel of column x
background_pixel(p, x) ==
  LET bg_tile_map == IF is_flag_set(p.lcdc, BackgroundTileMap) THEN 39936 ELSE 38912
      y == p.ly + p.scy
      x_pos == x + p.scx
      tile_index == read_ram(p, bg_tile_map + ((y \div 8) % 32) * 32 + ((x_pos \div 8) % 32))
  IN  palette_color(p.bgp, get_tile_pixel(p, tile_index, y % 8, x_pos % 8))

render_background(p, scanline) == [x \in Columns |-> background_pixel(p, x)]

\* Ppu::render_window: whether the window is drawn on this line
window_drawn(p) ==
  ~(p.ly < p.wy) /\ (IF p.wx < 7 THEN 0 ELSE p.wx - 7) < 160

\* Ppu::render_window, the pixel of column x at or right of the window's start
window_pixel(p, x, start) ==
  LET window_tile_map == IF is_flag_set(p.lcdc, WindowTileMap) THEN 39936 ELSE 38912
      tile_index == read_ram(p, window_tile_map + (p.wly \div 8) * 32 + ((x - start) \div 8))
  IN  palette_color(p.bgp, get_tile_pixel(p, tile_index, p.wly % 8, (x - start) % 8))

window_line(p, scanline, start) ==
  [x \in Columns |-> IF x >= start THEN window_pixel(p, x, start) ELSE scanline[x]]

\* Ppu::render_window on the scanline (the line counter is render_window_counter)
render_window(p, scanline) ==
  IF window_drawn(p)
  THEN window_line(p, scanline, IF p.wx < 7 THEN 0 ELSE p.wx - 7)
  ELSE scanline

\* Ppu::render_window: self.wly after the window was rendered
render_window_counter(p) ==
  IF window_drawn(p) THEN [p EXCEPT !.wly = wrapping_add8(p.wly, 1)] ELSE p

sprite_height(p) == IF is_flag_set(p.lcdc, SpriteDimensions) THEN 16 ELSE 8

\* the SpriteEntry pushed for the OAM chunk, the n-th accepted one
sprite_entry(p, chunk, n) ==
  [x |-> wrapping_sub8(ArrayGet(p.oam, 4 * chunk + 1), 8),
   y |-> wrapping_sub8(ArrayGet(p.oam, 4 * chunk), 16),
   tile_index |-> ArrayGet(p.oam, 4 * chunk + 2),
   attributes |-> ArrayGet(p.oam, 4 * chunk + 3),
   oam_position |-> n]

\* the sprites that are skipped: invisible or not on this line
sprite_ignored(p, raw_y) ==
  \/ raw_y = 0
  \/ raw_y >= 160
  \/ p.ly < wrapping_sub8(raw_y, 16)
  \/ p.ly >= wrapping_sub8(raw_y, 16) + sprite_height(p)

\* the loop over self.oam.chunks_exact(4)
RECURSIVE collect_sprites(_, _, _)
collect_sprites(p, chunk, sprites) ==
  IF chunk = 40 \/ Len(sprites) >= MAX_SCANLINE_SPRITES THEN sprites
  ELSE IF sprite_ignored(p, ArrayGet(p.oam, 4 * chunk))
       THEN collect_sprites(p, chunk + 1, sprites)
       ELSE collect_sprites(p, chunk + 1,
                            Append(sprites, sprite_entry(p, chunk, Len(sprites))))

\* the comparator of sprites.sort_by: a is ordered before b
sprite_order(a, b) ==
  IF a.x = b.x THEN a.oam_position > b.oam_position ELSE a.x > b.x

RECURSIVE sort_insert(_, _)
sort_insert(sorted, s) ==
  IF sorted = <<>> THEN <<s>>
  ELSE IF sprite_order(s, Head(sorted)) THEN <<s>> \o sorted
  ELSE <<Head(sorted)>> \o sort_insert(Tail(sorted), s)

\* sprites.sort_by(..)
RECURSIVE sort_sprites(_)
sort_sprites(sprites) ==
  IF sprites = <<>> THEN <<>>
  ELSE sort_insert(sort_sprites(Tail(sprites)), Head(sprites))

\* the row of the sprite on this line
sprite_row(p, sprite) ==
  IF is_flag_set(sprite.attributes, YFlip)
  THEN sprite_height(p) - 1 - wrapping_sub8(p.ly, sprite.y)
  ELSE wrapping_sub8(p.ly, sprite.y)

\* get_sprite_pixel for (tile_to_use, tile_row) at x_offset
sprite_color(p, sprite, row, x_offset) ==
  LET flip_x == is_flag_set(sprite.attributes, XFlip)
      cleared_tile == sprite.tile_index - (sprite.tile_index % 2)
  IN  IF sprite_height(p) = 16
      THEN IF row < 8
           THEN get_sprite_pixel(p, cleared_tile, row, x_offset, flip_x)
           ELSE get_sprite_pixel(p, cleared_tile + 1, row - 8, x_offset, flip_x)
      ELSE get_sprite_pixel(p, sprite.tile_index, row, x_offset, flip_x)

\* the pixel written for a color that is not 0
sprite_mapped(p, sprite, color, pixel) ==
  IF color = 0 THEN pixel
  ELSE palette_color(IF is_flag_set(sprite.attributes, DmgPalette) THEN p.obp1 ELSE p.obp0,
                     color)

\* the body of the loop over x_offset for the column it reaches, if any:
\* screen_x = sprite.x.wrapping_add(x_offset)
sprite_column(p, sprite, pixel, x_offset) ==
  IF x_offset >= 8 THEN pixel
  ELSE IF is_flag_set(sprite.attributes, Priority) /\ pixel # 0 THEN pixel
  ELSE sprite_mapped(p, sprite, sprite_color(p, sprite, sprite_row(p, sprite), x_offset),
                     pixel)

draw_sprite(p, scanline, sprite) ==
  [c \in Columns |-> sprite_column(p, sprite, scanline[c], (c + 256 - sprite.x) % 256)]

\* for sprite in &sprites
RECURSIVE draw_sprites(_, _, _)
draw_sprites(p, scanline, sprites) ==
  IF sprites = <<>> THEN scanline
  ELSE draw_sprites(p, draw_sprite(p, scanline, Head(sprites)), Tail(sprites))

\* Ppu::render_sprites
render_sprites(p, scanline) ==
  draw_sprites(p, scanline, sort_sprites(collect_sprites(p, 0, <<>>)))

\* self.buffer[self.ly] = scanline; the buffer holds the lines that are not blank
store_line(p, scanline) ==
  [p EXCEPT !.buffer =
     IF scanline = BlankLine
     THEN [l \in (DOMAIN p.buffer) \ {p.ly} |-> p.buffer[l]]
     ELSE [l \in (DOMAIN p.buffer) \cup {p.ly} |->
             IF l = p.ly THEN scanline ELSE p.buffer[l]]]

render_scanline_background(p) ==
  IF is_flag_set(p.lcdc, BackgroundDisplay) THEN render_background(p, BlankLine)
  ELSE BlankLine

render_scanline_window(p, scanline) ==
  IF is_flag_set(p.lcdc, WindowDisplay) THEN render_window(p, scanline) ELSE scanline

render_scanline_sprites(p, scanline) ==
  IF is_flag_set(p.lcdc, SpriteDisplay) THEN render_sprites(p, scanline) ELSE scanline

\* Ppu::render_scanline
render_scanline(p) ==
  IF ~is_flag_set(p.lcdc, LcdDisplay) THEN p
  ELSE store_line(IF is_flag_set(p.lcdc, WindowDisplay) THEN render_window_counter(p) ELSE p,
                  render_scanline_sprites(p,
                    render_scanline_window(p, render_scanline_background(p))))

\* Ppu::step, its head: the dot counter and the LY = LYC comparison, on the
\* pair [ppu, interrupts]
Ppu_compare_lyc(pi) ==
  LET hit == pi.ppu.ly = pi.ppu.lyc
      rising == hit /\ ~is_flag_set(pi.ppu.stat, StatCoincidence)
  IN  [ppu |-> [pi.ppu EXCEPT !.counter = pi.ppu.counter + 1,
                              !.stat = IF hit
                                       THEN add_flag(pi.ppu.stat, StatCoincidence)
                                       ELSE remove_flag(pi.ppu.stat, StatCoincidence)],
       interrupts |-> IF rising /\ is_flag_set(pi.ppu.stat, LycInterrupt)
                      THEN request_interrupt(pi.interrupts, Lcd)
                      ELSE pi.interrupts]

\* A line's end in HBlank that enters VBlank one line late
Ppu_end_hblank_after_line_144(p2, i1) ==
  IF p2.ly = 145
  THEN [ppu |-> set_current_mode(p2, VBlankMode),
        interrupts |->
          IF is_flag_set(p2.stat, VBlankInterrupt)
          THEN request_interrupt(request_interrupt(i1, VBlank), Lcd)
          ELSE request_interrupt(i1, VBlank)]
  ELSE [ppu |-> set_current_mode(p2, OamScan), interrupts |-> i1]

\* The line's end in HBlank: the next line, or VBlank after line 143
Ppu_end_hblank(p2, i1) ==
  IF p2.ly = 144
  THEN [ppu |-> set_current_mode(p2, VBlankMode),
        interrupts |->
          IF is_flag_set(p2.stat, VBlankInterrupt)
          THEN request_interrupt(request_interrupt(i1, VBlank), Lcd)
          ELSE request_interrupt(i1, VBlank)]
  ELSE [ppu |-> set_current_mode(p2, OamScan), interrupts |-> i1]

\* The line's end in VBlank: the next line, or a new frame after line 153
Ppu_end_vblank_line(p2, i1) ==
  IF p2.ly > 153
  THEN [ppu |-> set_current_mode([p2 EXCEPT !.ly = 0, !.wly = 0], OamScan),
        interrupts |-> i1]
  ELSE [ppu |-> p2, interrupts |-> i1]

\* Ppu::step, its match on the current mode
Ppu_step_mode(p1, i1) ==
  CASE current_mode(p1) = OamScan ->
         IF p1.counter >= 80
         THEN [ppu |-> set_current_mode([p1 EXCEPT !.counter = p1.counter - 80],
                                        PixelTransfer),
               interrupts |-> IF is_flag_set(p1.stat, OamInterrupt)
                              THEN request_interrupt(i1, Lcd) ELSE i1]
         ELSE [ppu |-> p1, interrupts |-> i1]
    [] current_mode(p1) = PixelTransfer ->
         IF p1.counter >= 172
         THEN [ppu |-> render_scanline(
                         set_current_mode([p1 EXCEPT !.counter = p1.counter - 172],
                                          HBlank)),
               interrupts |-> IF is_flag_set(p1.stat, HBlankInterrupt)
                              THEN request_interrupt(i1, Lcd) ELSE i1]
         ELSE [ppu |-> p1, interrupts |-> i1]
    [] current_mode(p1) = HBlank ->
         IF p1.counter >= 204
         THEN Ppu_end_hblank([p1 EXCEPT !.counter = p1.counter - 204,
                                        !.ly = wrapping_add8(p1.ly, 1)], i1)
         ELSE [ppu |-> p1, interrupts |-> i1]
    [] current_mode(p1) = VBlankMode ->
         IF p1.counter >= 456
         THEN Ppu_end_vblank_line([p1 EXCEPT !.counter = p1.counter - 456,
                                             !.ly = wrapping_add8(p1.ly, 1)], i1)
         ELSE [ppu |-> p1, interrupts |-> i1]

Ppu_step_pair(r) == Ppu_step_mode(r.ppu, r.interrupts)

\* Ppu::step on the pair [ppu, interrupts]
Ppu_step(pi) == Ppu_step_pair(Ppu_compare_lyc(pi))

Ppu_read_register(p, address) ==
  CASE address = 65344 -> p.lcdc
    [] address = 65345 -> p.stat
    [] address = 65346 -> p.scy
    [] address = 65347 -> p.scx
    [] address = 65348 -> p.ly
    [] address = 65349 -> p.lyc
    [] address = 65350 -> p.dma
    [] address = 65351 -> p.bgp
    [] address = 65352 -> p.obp0
    [] address = 65353 -> p.obp1
    [] address = 65354 -> p.wy
    [] address = 65355 -> p.wx

Ppu_write_register(p, address, value) ==
  CASE address = 65344 ->
         IF is_flag_set(p.lcdc, LcdDisplay) /\ ~is_flag_set(value, LcdDisplay)
         THEN [p EXCEPT !.ly = 0, !.wly = 0,
                        !.stat = remove_flag(p.stat, StatCoincidence),
                        !.lcdc = value]
         ELSE [p EXCEPT !.lcdc = value]
    [] address = 65345 ->
         [p EXCEPT !.stat = BitOr(BitAnd(value, 124), current_mode(p))]
    [] address = 65346 -> [p EXCEPT !.scy = value]
    [] address = 65347 -> [p EXCEPT !.scx = value]
    [] address = 65348 -> p
    [] address = 65349 -> [p EXCEPT !.lyc = value]
    [] address = 65350 ->
         IF p.dma_transfer.kind # "None"
         THEN [p EXCEPT !.dma = value,
                        !.restarted_dma_transfer = RestartedDmaTransfer_new(value)]
         ELSE [p EXCEPT !.dma = value, !.dma_transfer = DmaTransfer_new]
    [] address = 65351 -> [p EXCEPT !.bgp = value]
    [] address = 65352 -> [p EXCEPT !.obp0 = value]
    [] address = 65353 -> [p EXCEPT !.obp1 = value]
    [] address = 65354 -> [p EXCEPT !.wy = value]
    [] address = 65355 -> [p EXCEPT !.wx = value]

----------------------------------------------------------------------------
(* Cartridge (hardware/cartridge.rs).  A ROM image is len bytes long: the  *)
(* bytes of code start at base, the addresses from data on hold a table of *)
(* non-zero bytes, every other byte is 0x00 (NOP).  -1 is Option::None.    *)

rom_get(rom, i) ==
  IF i >= rom.len THEN -1
  ELSE IF i >= rom.base /\ i < rom.base + Len(rom.code) THEN rom.code[i - rom.base + 1]
  ELSE IF i >= rom.data THEN (i % 255) + 1
  ELSE 0

RomOnly_new(bytes) == [kind |-> "RomOnly", rom |-> bytes]

\* self.rom.get(address).copied().unwrap(): -1 stands for the panic of unwrap
RomOnly_read_rom(c, address) == rom_get(c.rom, address)

\* Mbc1::new
Mbc1_new(bytes) ==
  [kind |-> "Mbc1", rom |-> bytes, ram |-> EmptyArray, rom_bank |-> 1,
   ram_bank |-> 0, ram_enabled |-> FALSE, banking_mode |-> "Simple"]

\* Mbc1::read_rom: unwrap_or(0xFF) past the end of the image
Mbc1_read_rom(c, address) ==
  LET bank   == IF address < 16384 THEN 0 ELSE c.rom_bank
      offset == BitAndN(address, 16383, 16)
      byte   == rom_get(c.rom, bank * 16384 + offset)
  IN  IF byte = -1 THEN 255 ELSE byte

Max(a, b) == IF a >= b THEN a ELSE b

\* A bank-select write that stores the five low bits as written
Mbc1_write_rom_no_correction(c, address, value) ==
  IF address \in 8192..16383
  THEN [c EXCEPT !.rom_bank = BitOr(BitAnd(c.rom_bank, 96), BitAnd(value, 31))]
  ELSE c

\* Mbc1::write_rom
Mbc1_write_rom(c, address, value) ==
  IF address < 8192 THEN [c EXCEPT !.ram_enabled = (BitAnd(value, 15) = 10)]
  ELSE IF address < 16384 THEN
    [c EXCEPT !.rom_bank = BitOr(BitAnd(c.rom_bank, 96), Max(BitAnd(value, 31), 1))]
  ELSE IF address < 24576 THEN
    IF c.banking_mode = "Simple"
    THEN [c EXCEPT !.rom_bank = BitOr(BitAnd(c.rom_bank, 31), BitAnd(value, 3) * 32)]
    ELSE [c EXCEPT !.ram_bank = BitAnd(value, 3)]
  ELSE IF address < 32768 THEN
    [c EXCEPT !.banking_mode = IF BitAnd(value, 1) = 0 THEN "Advanced" ELSE "Simple"]
  ELSE c

\* Mbc1::read_ram
Mbc1_read_ram(c, address) ==
  IF c.ram_enabled
  THEN LET i == c.ram_bank * 8192 + BitAndN(address, 8191, 16)
       IN  IF i < 32768 THEN ArrayGet(c.ram, i) ELSE 255
  ELSE 255

\* Mbc1::write_ram
Mbc1_write_ram(c, address, value) ==
  IF ~c.ram_enabled THEN c
  ELSE LET i == c.ram_bank * 8192 + BitAndN(address, 8191, 16)
       IN  IF i < 32768 THEN [c EXCEPT !.ram = ArraySet(c.ram, i, value)] ELSE c

Cartridge_read_rom(c, address) ==
  IF c.kind = "RomOnly" THEN RomOnly_read_rom(c, address)
                        ELSE Mbc1_read_rom(c, address)

\* Cartridge::RomOnly(_) => {}
Cartridge_write_rom(c, address, value) ==
  IF c.kind = "RomOnly" THEN c ELSE Mbc1_write_rom(c, address, value)

\* Cartridge::RomOnly(_) => 0xFF
Cartridge_read_ram(c, address) ==
  IF c.kind = "RomOnly" THEN 255 ELSE Mbc1_read_ram(c, address)

\* Cartridge::RomOnly(_) => {}
Cartridge_write_ram(c, address, value) ==
  IF c.kind = "RomOnly" THEN c ELSE Mbc1_write_ram(c, address, value)

\* bytes[CARTRIDGE_TYPE]: any other type byte panics
Cartridge_new(bytes) ==
  CASE rom_get(bytes, 327) = 0 -> RomOnly_new(bytes)
    [] rom_get(bytes, 327) \in 1..3 -> Mbc1_new(bytes)

----------------------------------------------------------------------------
(* System clock (hardware/clock.rs).  The counter is kept modulo 4, which  *)
(* is all that t_cycle reads (the usize counter wraps at a multiple of 4). *)

SystemClock_new == 0

t_cycle(c) ==
  CASE c % 4 = 0 -> "T4"
    [] c % 4 = 1 -> "T1"
    [] c % 4 = 2 -> "T2"
    [] c % 4 = 3 -> "T3"

increment_clock(c) == (c + 1) % 4

----------------------------------------------------------------------------
(* APU (hardware/apu.rs, hardware/apu/*.rs).  A sound channel is a record  *)
(* of its registers and counters; the wave RAM is an array of 16 bytes.    *)
(* An audio sample is kept as the pair of its numerators: the f32 value of *)
(* the source is the numerator times volume / (15 * 8 * 4).                *)

FRAME_SEQEUNCER_CYCLES == 8192
FRAME_SEQUENCER_STEP_COUNT == 8
APU_ENABLE_MASK == 128
CHANNEL_TRIGGER_MASK == 128
TIMER_LENGTH_ENABLE_MASK == 64
MAX_CHANNEL_TIMER_LENGTH == 64
WAVE_MAX_CHANNEL_TIMER_LENGTH == 256
MAX_FREQUENCY == 2048
SAMPLES_PER_CYCLE == 4194304 \div 44100
SWEEP_DIRECTION_MASK == 8
ENVELOPE_DIRECTION_MASK == 8

\* x >> n
ShiftRight(x, n) == x \div (2 ^ n)

\* The envelope update shared by the three channels with an envelope: the
\* volume moves by one within 0..15 in the direction of bit 3 of NRx2
envelope_volume(nrx2, volume) ==
  IF is_flag_set(nrx2, ENVELOPE_DIRECTION_MASK)
  THEN (IF volume < 15 THEN volume + 1 ELSE volume)
  ELSE (IF volume = 0 THEN 0 ELSE volume - 1)

(* ---- channel 2: PulseChannel (apu/pulse_channel.rs) ---- *)

PulseChannel_new ==
  [nr21 |-> 0, nr22 |-> 0, nr23 |-> 0, nr24 |-> 0, frequency_timer |-> 0,
   duty_step |-> 0, volume |-> 0, length_timer |-> 0, envelope_timer |-> 0,
   enabled |-> FALSE]

PulseChannel_get_period(c) == (c.nr24 % 8) * 256 + c.nr23

PulseChannel_frequency_timer_reload(c) == MAX_FREQUENCY - PulseChannel_get_period(c)

PulseChannel_is_dac_on(c) == ShiftRight(c.nr22, 3) # 0

PulseChannel_step(c) ==
  IF c.frequency_timer = 0
  THEN [c EXCEPT !.frequency_timer = PulseChannel_frequency_timer_reload(c) * 4 - 1,
                 !.duty_step = (@ + 1) % 8]
  ELSE [c EXCEPT !.frequency_timer = @ - 1]

\* A length timer that runs whether or not it is enabled
PulseChannel_step_length_timer_always(c) ==
  IF c.length_timer = 0
  THEN c
  ELSE [c EXCEPT !.length_timer = @ - 1,
                 !.enabled = IF c.length_timer - 1 = 0 THEN FALSE ELSE @]

PulseChannel_step_length_timer(c) ==
  IF ~is_flag_set(c.nr24, TIMER_LENGTH_ENABLE_MASK) \/ c.length_timer = 0
  THEN c
  ELSE [c EXCEPT !.length_timer = @ - 1,
                 !.enabled = IF c.length_timer - 1 = 0 THEN FALSE ELSE @]

PulseChannel_update_envelope_timer(c) ==
  [c EXCEPT !.envelope_timer = c.nr22 % 8,
            !.volume = envelope_volume(c.nr22, c.volume)]

PulseChannel_step_envelope(c) ==
  IF c.nr22 % 8 = 0 \/ c.envelope_timer = 0
  THEN c
  ELSE IF c.envelope_timer - 1 = 0
       THEN PulseChannel_update_envelope_timer([c EXCEPT !.envelope_timer = 0])
       ELSE [c EXCEPT !.envelope_timer = @ - 1]

PulseChannel_trigger(c) ==
  [c EXCEPT !.enabled = PulseChannel_is_dac_on(c),
            !.length_timer = IF @ = 0 THEN MAX_CHANNEL_TIMER_LENGTH ELSE @,
            !.frequency_timer = PulseChannel_frequency_timer_reload(c) * 4,
            !.envelope_timer = c.nr22 % 8,
            !.volume = ShiftRight(c.nr22, 4),
            !.duty_step = 0]

PulseChannel_reload_length_timer(c) ==
  [c EXCEPT !.length_timer = MAX_CHANNEL_TIMER_LENGTH - (c.nr21 % 64)]

\* The 0x19 (NR24) arm of write_register
PulseChannel_write_control(c, value, frame_step) ==
  LET prev_length_enabled == is_flag_set(c.nr24, TIMER_LENGTH_ENABLE_MASK)
      curr_length_enabled == is_flag_set(value, TIMER_LENGTH_ENABLE_MASK)
      should_trigger == is_flag_set(value, CHANNEL_TRIGGER_MASK)
      will_clock_length == frame_step % 2 = 0
      stored == [c EXCEPT !.nr24 = value]
      clocked ==
        IF ~prev_length_enabled /\ curr_length_enabled /\ ~will_clock_length
           /\ c.length_timer > 0
        THEN [stored EXCEPT !.length_timer = @ - 1,
                            !.enabled = IF c.length_timer - 1 = 0 /\ ~should_trigger
                                        THEN FALSE ELSE @]
        ELSE stored
      triggered == IF should_trigger THEN PulseChannel_trigger(clocked) ELSE clocked
      timer_reloaded ==
        clocked.length_timer = 0 /\ triggered.length_timer = MAX_CHANNEL_TIMER_LENGTH
  IN IF curr_length_enabled /\ timer_reloaded /\ ~will_clock_length
     THEN [triggered EXCEPT !.length_timer = @ - 1]
     ELSE triggered

PulseChannel_write_register(c, apu_enabled, address, value, frame_step) ==
  LET lower_byte == address % 256
  IN IF ~apu_enabled /\ lower_byte # 22 THEN c
     ELSE CASE lower_byte = 22 ->
                 PulseChannel_reload_length_timer(
                   [c EXCEPT !.nr21 = IF apu_enabled THEN value ELSE value % 64])
            [] lower_byte = 23 ->
                 [c EXCEPT !.nr22 = value,
                           !.enabled = IF ShiftRight(value, 3) = 0 THEN FALSE ELSE @]
            [] lower_byte = 24 -> [c EXCEPT !.nr23 = value]
            [] lower_byte = 25 -> PulseChannel_write_control(c, value, frame_step)

PulseChannel_read_register(c, address) ==
  CASE address % 256 = 22 -> BitOr(c.nr21, 63)
    [] address % 256 = 23 -> c.nr22
    [] address % 256 = 24 -> 255
    [] address % 256 = 25 -> BitOr(c.nr24, 191)

PulseChannel_clear_registers(c) ==
  [c EXCEPT !.nr21 = 0, !.nr22 = 0, !.nr23 = 0, !.nr24 = 0, !.enabled = FALSE]

PulseChannel_duty(c) ==
  <<<<0, 0, 0, 0, 0, 0, 0, 1>>, <<0, 0, 0, 0, 0, 0, 1, 1>>,
    <<0, 0, 0, 0, 1, 1, 1, 1>>, <<1, 1, 1, 1, 1, 1, 0, 0>>>>[ShiftRight(c.nr21, 6) + 1]

PulseChannel_get_sample(c) ==
  IF ~c.enabled THEN 0 ELSE PulseChannel_duty(c)[c.duty_step + 1] * c.volume

(* ---- channel 1: PulseSweepChannel (apu/pulse_sweep_channel.rs) ---- *)

PulseSweepChannel_new ==
  [nr10 |-> 0, nr11 |-> 0, nr12 |-> 0, nr13 |-> 0, nr14 |-> 0,
   frequency_timer |-> 0, duty_step |-> 0, volume |-> 0, length_timer |-> 0,
   envelope_timer |-> 0, enabled |-> FALSE, shadow_frequency |-> 0,
   sweep_timer |-> 0, sweep_enabled |-> FALSE, had_negative_sweep_calc |-> FALSE]

PulseSweepChannel_get_period(c) == (c.nr14 % 8) * 256 + c.nr13

PulseSweepChannel_frequency_timer_reload(c) ==
  MAX_FREQUENCY - PulseSweepChannel_get_period(c)

PulseSweepChannel_is_dac_on(c) == ShiftRight(c.nr12, 3) # 0

PulseSweepChannel_step(c) ==
  IF c.frequency_timer = 0
  THEN [c EXCEPT !.frequency_timer = PulseSweepChannel_frequency_timer_reload(c) * 4 - 1,
                 !.duty_step = (@ + 1) % 8]
  ELSE [c EXCEPT !.frequency_timer = @ - 1]

PulseSweepChannel_step_length_timer(c) ==
  IF ~is_flag_set(c.nr14, TIMER_LENGTH_ENABLE_MASK) \/ c.length_timer = 0
  THEN c
  ELSE [c EXCEPT !.length_timer = @ - 1,
                 !.enabled = IF c.length_timer - 1 = 0 THEN FALSE ELSE @]

PulseSweepChannel_update_envelope_timer(c) ==
  [c EXCEPT !.envelope_timer = c.nr12 % 8,
            !.volume = envelope_volume(c.nr12, c.volume)]

PulseSweepChannel_step_envelope(c) ==
  IF c.nr12 % 8 = 0 \/ c.envelope_timer = 0
  THEN c
  ELSE IF c.envelope_timer - 1 = 0
       THEN PulseSweepChannel_update_envelope_timer([c EXCEPT !.envelope_timer = 0])
       ELSE [c EXCEPT !.envelope_timer = @ - 1]

\* calculate_next_sweep_frequency: the value returned
next_sweep_frequency(c) ==
  IF is_flag_set(c.nr10, SWEEP_DIRECTION_MASK)
  THEN c.shadow_frequency - ShiftRight(c.shadow_frequency, c.nr10 % 8)
  ELSE c.shadow_frequency + ShiftRight(c.shadow_frequency, c.nr10 % 8)

\* calculate_next_sweep_frequency: the channel it leaves
calculate_next_sweep_frequency(c) ==
  IF is_flag_set(c.nr10, SWEEP_DIRECTION_MASK)
  THEN [c EXCEPT !.had_negative_sweep_calc = TRUE]
  ELSE c

update_sweep_frequency(c) ==
  LET new_freq == next_sweep_frequency(c)
      first == calculate_next_sweep_frequency(c)
      stored == [first EXCEPT !.shadow_frequency = new_freq,
                              !.nr13 = new_freq % 256,
                              !.nr14 = BitAnd(@, 248) + (ShiftRight(new_freq, 8) % 8)]
  IN IF new_freq > 2047 THEN [first EXCEPT !.enabled = FALSE]
     ELSE IF c.nr10 % 8 # 0
          THEN [calculate_next_sweep_frequency(stored) EXCEPT
                  !.enabled = IF next_sweep_frequency(stored) > 2047 THEN FALSE ELSE @]
          ELSE first

update_sweep_timer(c) ==
  LET sweep_pace == ShiftRight(c.nr10, 4) % 8
      reloaded == [c EXCEPT !.sweep_timer = IF sweep_pace = 0 THEN 8 ELSE sweep_pace]
  IN IF c.sweep_enabled /\ sweep_pace # 0
     THEN update_sweep_frequency(reloaded)
     ELSE reloaded

PulseSweepChannel_step_sweep(c) ==
  IF c.sweep_timer = 0 THEN c
  ELSE IF c.sweep_timer - 1 = 0
       THEN update_sweep_timer([c EXCEPT !.sweep_timer = 0])
       ELSE [c EXCEPT !.sweep_timer = @ - 1]

PulseSweepChannel_trigger(c) ==
  LET sweep_pace == ShiftRight(c.nr10, 4) % 8
      sweep_step == c.nr10 % 8
      loaded ==
        [c EXCEPT !.enabled = PulseSweepChannel_is_dac_on(c),
                  !.length_timer = IF @ = 0 THEN MAX_CHANNEL_TIMER_LENGTH ELSE @,
                  !.frequency_timer = PulseSweepChannel_frequency_timer_reload(c) * 4,
                  !.envelope_timer = c.nr12 % 8,
                  !.volume = ShiftRight(c.nr12, 4),
                  !.duty_step = 0,
                  !.shadow_frequency = PulseSweepChannel_get_period(c),
                  !.sweep_timer = IF sweep_pace = 0 THEN 8 ELSE sweep_pace,
                  !.sweep_enabled = sweep_pace # 0 \/ sweep_step # 0,
                  !.had_negative_sweep_calc = FALSE]
  IN IF sweep_step # 0
     THEN [calculate_next_sweep_frequency(loaded) EXCEPT
             !.enabled = IF next_sweep_frequency(loaded) > 2047 THEN FALSE ELSE @]
     ELSE loaded

PulseSweepChannel_reload_length_timer(c) ==
  [c EXCEPT !.length_timer = MAX_CHANNEL_TIMER_LENGTH - (c.nr11 % 64)]

\* The 0x14 (NR14) arm of write_register
PulseSweepChannel_write_control(c, value, frame_step) ==
  LET prev_length_enabled == is_flag_set(c.nr14, TIMER_LENGTH_ENABLE_MASK)
      curr_length_enabled == is_flag_set(value, TIMER_LENGTH_ENABLE_MASK)
      should_trigger == is_flag_set(value, CHANNEL_TRIGGER_MASK)
      will_clock_length == frame_step % 2 = 0
      stored == [c EXCEPT !.nr14 = value]
      clocked ==
        IF ~prev_length_enabled /\ curr_length_enabled /\ ~will_clock_length
           /\ c.length_timer > 0
        THEN [stored EXCEPT !.length_timer = @ - 1,
                            !.enabled = IF c.length_timer - 1 = 0 /\ ~should_trigger
                                        THEN FALSE ELSE @]
        ELSE stored
      triggered == IF should_trigger THEN PulseSweepChannel_trigger(clocked) ELSE clocked
      timer_reloaded ==
        clocked.length_timer = 0 /\ triggered.length_timer = MAX_CHANNEL_TIMER_LENGTH
  IN IF curr_length_enabled /\ timer_reloaded /\ ~will_clock_length
     THEN [triggered EXCEPT !.length_timer = @ - 1]
     ELSE triggered

PulseSweepChannel_write_register(c, apu_enabled, address, value, frame_step) ==
  LET lower_byte == address % 256
  IN IF ~apu_enabled /\ lower_byte # 17 THEN c
     ELSE CASE lower_byte = 16 ->
                 [c EXCEPT !.nr10 = value,
                           !.enabled =
                             IF c.had_negative_sweep_calc
                                /\ is_flag_set(c.nr10, SWEEP_DIRECTION_MASK)
                                /\ ~is_flag_set(value, SWEEP_DIRECTION_MASK)
                             THEN FALSE ELSE @]
            [] lower_byte = 17 ->
                 PulseSweepChannel_reload_length_timer(
                   [c EXCEPT !.nr11 = IF apu_enabled THEN value ELSE value % 64])
            [] lower_byte = 18 ->
                 [c EXCEPT !.nr12 = value,
                           !.enabled = IF ShiftRight(value, 3) = 0 THEN FALSE ELSE @]
            [] lower_byte = 19 -> [c EXCEPT !.nr13 = value]
            [] lower_byte = 20 -> PulseSweepChannel_write_control(c, value, frame_step)

PulseSweepChannel_read_register(c, address) ==
  CASE address % 256 = 16 -> BitOr(c.nr10, 128)
    [] address % 256 = 17 -> BitOr(c.nr11, 63)
    [] address % 256 = 18 -> c.nr12
    [] address % 256 = 19 -> 255
    [] address % 256 = 20 -> BitOr(c.nr14, 191)

PulseSweepChannel_clear_registers(c) ==
  [c EXCEPT !.nr10 = 0, !.nr11 = 0, !.nr12 = 0, !.nr13 = 0, !.nr14 = 0,
            !.enabled = FALSE]

PulseSweepChannel_duty(c) ==
  <<<<0, 0, 0, 0, 0, 0, 0, 1>>, <<0, 0, 0, 0, 0, 0, 1, 1>>,
    <<0, 0, 0, 0, 1, 1, 1, 1>>, <<1, 1, 1, 1, 1, 1, 0, 0>>>>[ShiftRight(c.nr11, 6) + 1]

PulseSweepChannel_get_sample(c) ==
  IF ~c.enabled THEN 0 ELSE PulseSweepChannel_duty(c)[c.duty_step + 1] * c.volume

(* ---- channel 3: WaveChannel (apu/wave_channel.rs) ---- *)

WaveChannel_new ==
  [nr30 |-> 0, nr31 |-> 0, nr32 |-> 0, nr33 |-> 0, nr34 |-> 0,
   frequency_timer |-> 0, length_timer |-> 0, enabled |-> FALSE,
   wave_ram |-> EmptyArray, wave_ram_index |-> 0]

WaveChannel_get_period(c) == (c.nr34 % 8) * 256 + c.nr33

WaveChannel_frequency_timer_reload(c) == MAX_FREQUENCY - WaveChannel_get_period(c)

WaveChannel_is_dac_on(c) == is_flag_set(c.nr30, 128)

WaveChannel_step(c) ==
  IF c.frequency_timer = 0
  THEN [c EXCEPT !.frequency_timer = WaveChannel_frequency_timer_reload(c) * 2 - 1,
                 !.wave_ram_index = (@ + 1) % 32]
  ELSE [c EXCEPT !.frequency_timer = @ - 1]

WaveChannel_step_length_timer(c) ==
  IF ~is_flag_set(c.nr34, TIMER_LENGTH_ENABLE_MASK) \/ c.length_timer = 0
  THEN c
  ELSE [c EXCEPT !.length_timer = @ - 1,
                 !.enabled = IF c.length_timer - 1 = 0 THEN FALSE ELSE @]

WaveChannel_trigger(c) ==
  [c EXCEPT !.enabled = WaveChannel_is_dac_on(c),
            !.length_timer = IF @ = 0 THEN WAVE_MAX_CHANNEL_TIMER_LENGTH ELSE @,
            !.frequency_timer = WaveChannel_frequency_timer_reload(c) * 2,
            !.wave_ram_index = 0]

WaveChannel_reload_length_timer(c) ==
  [c EXCEPT !.length_timer = WAVE_MAX_CHANNEL_TIMER_LENGTH - c.nr31]

\* A store to NR34 that never clocks the length timer
WaveChannel_write_control_without_edges(c, value, frame_step) ==
  IF is_flag_set(value, CHANNEL_TRIGGER_MASK)
  THEN WaveChannel_trigger([c EXCEPT !.nr34 = value])
  ELSE [c EXCEPT !.nr34 = value]

\* The 0x1E (NR34) arm of write_register
WaveChannel_write_control(c, value, frame_step) ==
  LET prev_length_enabled == is_flag_set(c.nr34, TIMER_LENGTH_ENABLE_MASK)
      curr_length_enabled == is_flag_set(value, TIMER_LENGTH_ENABLE_MASK)
      should_trigger == is_flag_set(value, CHANNEL_TRIGGER_MASK)
      will_clock_length == frame_step % 2 = 0
      stored == [c EXCEPT !.nr34 = value]
      clocked ==
        IF ~prev_length_enabled /\ curr_length_enabled /\ ~will_clock_length
           /\ c.length_timer > 0
        THEN [stored EXCEPT !.length_timer = @ - 1,
                            !.enabled = IF c.length_timer - 1 = 0 /\ ~should_trigger
                                        THEN FALSE ELSE @]
        ELSE stored
      triggered == IF should_trigger THEN WaveChannel_trigger(clocked) ELSE clocked
      timer_reloaded ==
        clocked.length_timer = 0 /\ triggered.length_timer = WAVE_MAX_CHANNEL_TIMER_LENGTH
  IN IF curr_length_enabled /\ timer_reloaded /\ ~will_clock_length
     THEN [triggered EXCEPT !.length_timer = @ - 1]
     ELSE triggered

WaveChannel_write_register(c, apu_enabled, address, value, frame_step) ==
  LET lower_byte == address % 256
  IN IF ~apu_enabled /\ lower_byte # 27 THEN c
     ELSE CASE lower_byte = 26 ->
                 [c EXCEPT !.nr30 = value,
                           !.enabled = IF ~is_flag_set(value, 128) THEN FALSE ELSE @]
            [] lower_byte = 27 ->
                 WaveChannel_reload_length_timer([c EXCEPT !.nr31 = value])
            [] lower_byte = 28 -> [c EXCEPT !.nr32 = value]
            [] lower_byte = 29 -> [c EXCEPT !.nr33 = value]
            [] lower_byte = 30 -> WaveChannel_write_control(c, value, frame_step)

WaveChannel_read_register(c, address) ==
  CASE address % 256 = 26 -> BitOr(c.nr30, 127)
    [] address % 256 = 27 -> 255
    [] address % 256 = 28 -> BitOr(c.nr32, 159)
    [] address % 256 = 29 -> 255
    [] address % 256 = 30 -> BitOr(c.nr34, 191)

WaveChannel_clear_registers(c) ==
  [c EXCEPT !.nr30 = 0, !.nr31 = 0, !.nr32 = 0, !.nr33 = 0, !.nr34 = 0,
            !.enabled = FALSE]

write_wave_ram(c, address, value) ==
  [c EXCEPT !.wave_ram = ArraySet(@, address - 65328, value)]

read_wave_ram(c, address) ==
  IF c.enabled THEN 255 ELSE ArrayGet(c.wave_ram, address - 65328)

WaveChannel_get_sample(c) ==
  LET raw_byte == ArrayGet(c.wave_ram, ShiftRight(c.wave_ram_index, 1))
      wave_byte == IF c.wave_ram_index % 2 = 0 THEN ShiftRight(raw_byte, 4)
                   ELSE raw_byte % 16
      level == ShiftRight(c.nr32, 5) % 4
  IN IF ~c.enabled THEN 0
     ELSE CASE level = 0 -> 0
            [] level = 1 -> wave_byte
            [] level = 2 -> ShiftRight(wave_byte, 1)
            [] level = 3 -> ShiftRight(wave_byte, 2)

(* ---- channel 4: NoiseChannel (apu/noise_channel.rs) ---- *)

NoiseChannel_new ==
  [nr41 |-> 0, nr42 |-> 0, nr43 |-> 0, nr44 |-> 0, frequency_timer |-> 0,
   volume |-> 0, envelope_timer |-> 0, length_timer |-> 0, lsfr |-> 0,
   enabled |-> FALSE]

get_frequency(c) ==
  <<8, 16, 32, 48, 64, 80, 96, 112>>[(c.nr43 % 8) + 1] * (2 ^ ShiftRight(c.nr43, 4))

NoiseChannel_is_dac_on(c) == ShiftRight(c.nr42, 3) # 0

\* The shift of the LFSR: bit 0 xor bit 1 goes to bit 14 and, in the short
\* width mode, to bit 6 as well
shift_lsfr(c) ==
  LET xor == ((c.lsfr % 2) + (ShiftRight(c.lsfr, 1) % 2)) % 2
      wide == BitOr(ShiftRight(c.lsfr, 1), xor * 16384)
  IN IF is_flag_set(c.nr43, 8)
     THEN BitOr(BitAnd(wide, 65535 - 64), xor * 64)
     ELSE wide

NoiseChannel_step(c) ==
  IF c.frequency_timer = 0
  THEN [c EXCEPT !.frequency_timer = get_frequency(c) - 1, !.lsfr = shift_lsfr(c)]
  ELSE [c EXCEPT !.frequency_timer = @ - 1]

NoiseChannel_step_length_timer(c) ==
  IF ~is_flag_set(c.nr44, TIMER_LENGTH_ENABLE_MASK) \/ c.length_timer = 0
  THEN c
  ELSE [c EXCEPT !.length_timer = @ - 1,
                 !.enabled = IF c.length_timer - 1 = 0 THEN FALSE ELSE @]

NoiseChannel_update_envelope_timer(c) ==
  [c EXCEPT !.envelope_timer = c.nr42 % 8,
            !.volume = envelope_volume(c.nr42, c.volume)]

NoiseChannel_step_envelope(c) ==
  IF c.nr42 % 8 = 0 \/ c.envelope_timer = 0
  THEN c
  ELSE IF c.envelope_timer - 1 = 0
       THEN NoiseChannel_update_envelope_timer([c EXCEPT !.envelope_timer = 0])
       ELSE [c EXCEPT !.envelope_timer = @ - 1]

NoiseChannel_trigger(c) ==
  [c EXCEPT !.enabled = NoiseChannel_is_dac_on(c),
            !.length_timer = IF @ = 0 THEN MAX_CHANNEL_TIMER_LENGTH ELSE @,
            !.frequency_timer = get_frequency(c),
            !.envelope_timer = c.nr42 % 8,
            !.volume = ShiftRight(c.nr42, 4) % 16,
            !.lsfr = 32767]

NoiseChannel_reload_length_timer(c) ==
  [c EXCEPT !.length_timer = MAX_CHANNEL_TIMER_LENGTH - (c.nr41 % 64)]

\* The 0x23 (NR44) arm of write_register
NoiseChannel_write_control(c, value, frame_step) ==
  LET prev_length_enabled == is_flag_set(c.nr44, TIMER_LENGTH_ENABLE_MASK)
      curr_length_enabled == is_flag_set(value, TIMER_LENGTH_ENABLE_MASK)
      should_trigger == is_flag_set(value, CHANNEL_TRIGGER_MASK)
      will_clock_length == frame_step % 2 = 0
      stored == [c EXCEPT !.nr44 = value]
      clocked ==
        IF ~prev_length_enabled /\ curr_length_enabled /\ ~will_clock_length
           /\ c.length_timer > 0
        THEN [stored EXCEPT !.length_timer = @ - 1,
                            !.enabled = IF c.length_timer - 1 = 0 /\ ~should_trigger
                                        THEN FALSE ELSE @]
        ELSE stored
      triggered == IF should_trigger THEN NoiseChannel_trigger(clocked) ELSE clocked
      timer_reloaded ==
        clocked.length_timer = 0 /\ triggered.length_timer = MAX_CHANNEL_TIMER_LENGTH
  IN IF curr_length_enabled /\ timer_reloaded /\ ~will_clock_length
     THEN [triggered EXCEPT !.length_timer = @ - 1]
     ELSE triggered

\* write_register(address, value, frame_step): this method takes no
\* apu_enabled argument and has no arm that looks at the master switch
NoiseChannel_write_register(c, address, value, frame_step) ==
  LET lower_byte == address % 256
  IN CASE lower_byte = 32 ->
            NoiseChannel_reload_length_timer([c EXCEPT !.nr41 = value])
       [] lower_byte = 33 ->
            [c EXCEPT !.nr42 = value,
                      !.enabled = IF ShiftRight(value, 3) = 0 THEN FALSE ELSE @]
       [] lower_byte = 34 -> [c EXCEPT !.nr43 = value]
       [] lower_byte = 35 -> NoiseChannel_write_control(c, value, frame_step)

NoiseChannel_read_register(c, address) ==
  CASE address % 256 = 32 -> 255
    [] address % 256 = 33 -> c.nr42
    [] address % 256 = 34 -> c.nr43
    [] address % 256 = 35 -> BitOr(c.nr44, 191)

NoiseChannel_clear_registers(c) ==
  [c EXCEPT !.nr41 = 0, !.nr42 = 0, !.nr43 = 0, !.nr44 = 0, !.enabled = FALSE]

NoiseChannel_get_sample(c) ==
  IF ~c.enabled THEN 0 ELSE IF c.lsfr % 2 = 0 THEN c.volume ELSE 0

(* ---- the APU (hardware/apu.rs) ---- *)

Apu_new ==
  [channel1 |-> PulseSweepChannel_new, channel2 |-> PulseChannel_new,
   channel3 |-> WaveChannel_new, channel4 |-> NoiseChannel_new,
   nr50 |-> 0, nr51 |-> 0, nr52 |-> 0,
   frame_sequencer_cycles |-> 0, frame_sequencer_step |-> 0, dots |-> 0,
   audio_buffer |-> <<>>]

Apu_is_enabled(a) == is_flag_set(a.nr52, APU_ENABLE_MASK)

enabled_channels(a) ==
  (IF a.channel1.enabled THEN 1 ELSE 0) + (IF a.channel2.enabled THEN 2 ELSE 0)
  + (IF a.channel3.enabled THEN 4 ELSE 0) + (IF a.channel4.enabled THEN 8 ELSE 0)

\* A frame sequencer that never steps the sweep
frame_sequencer_clock_without_sweep(a, step) ==
  CASE step \in {0, 2, 4, 6} ->
         [a EXCEPT !.channel1 = PulseSweepChannel_step_length_timer(@),
                   !.channel2 = PulseChannel_step_length_timer(@),
                   !.channel3 = WaveChannel_step_length_timer(@),
                   !.channel4 = NoiseChannel_step_length_timer(@)]
    [] step \in {1, 3, 5} -> a
    [] step = 7 ->
         [a EXCEPT !.channel1 = PulseSweepChannel_step_envelope(@),
                   !.channel2 = PulseChannel_step_envelope(@),
                   !.channel4 = NoiseChannel_step_envelope(@)]

\* The arm of the match in step_frame_sequencer for one step
frame_sequencer_clock(a, step) ==
  CASE step \in {0, 2, 4, 6} ->
         [a EXCEPT !.channel1 =
                     IF step \in {2, 6}
                     THEN PulseSweepChannel_step_sweep(PulseSweepChannel_step_length_timer(@))
                     ELSE PulseSweepChannel_step_length_timer(@),
                   !.channel2 = PulseChannel_step_length_timer(@),
                   !.channel3 = WaveChannel_step_length_timer(@),
                   !.channel4 = NoiseChannel_step_length_timer(@)]
    [] step \in {1, 3, 5} -> a
    [] step = 7 ->
         [a EXCEPT !.channel1 = PulseSweepChannel_step_envelope(@),
                   !.channel2 = PulseChannel_step_envelope(@),
                   !.channel4 = NoiseChannel_step_envelope(@)]

step_frame_sequencer(a) ==
  IF a.frame_sequencer_cycles + 1 = FRAME_SEQEUNCER_CYCLES
  THEN [frame_sequencer_clock(a, a.frame_sequencer_step % FRAME_SEQUENCER_STEP_COUNT)
          EXCEPT !.frame_sequencer_cycles = 0,
                 !.frame_sequencer_step =
                   (a.frame_sequencer_step + 1) % FRAME_SEQUENCER_STEP_COUNT]
  ELSE [a EXCEPT !.frame_sequencer_cycles = @ + 1]

\* The sum of the channel outputs panned to one side (mask: the side's bit
\* of channel 1 in NR51) times the side's volume + 1
mix(a, mask, side_volume) ==
  ( (IF is_flag_set(a.nr51, mask) THEN PulseSweepChannel_get_sample(a.channel1) ELSE 0)
  + (IF is_flag_set(a.nr51, mask * 2) THEN PulseChannel_get_sample(a.channel2) ELSE 0)
  + (IF is_flag_set(a.nr51, mask * 4) THEN WaveChannel_get_sample(a.channel3) ELSE 0)
  + (IF is_flag_set(a.nr51, mask * 8) THEN NoiseChannel_get_sample(a.channel4) ELSE 0) )
  * (side_volume + 1)

push_audio_sample(a) ==
  [a EXCEPT !.audio_buffer =
     Append(@, [left |-> mix(a, 16, ShiftRight(a.nr50, 4) % 8),
                right |-> mix(a, 1, a.nr50 % 8)])]

\* Apu::step(1): one dot of the four channels and of the frame sequencer,
\* then a sample when SAMPLES_PER_CYCLE dots have passed
Apu_step(a) ==
  LET stepped ==
        step_frame_sequencer(
          [a EXCEPT !.channel1 = PulseSweepChannel_step(@),
                    !.channel2 = PulseChannel_step(@),
                    !.channel3 = WaveChannel_step(@),
                    !.channel4 = NoiseChannel_step(@)])
  IN IF ~Apu_is_enabled(a) THEN a
     ELSE IF a.dots + 1 >= SAMPLES_PER_CYCLE
          THEN push_audio_sample([stepped EXCEPT !.dots = a.dots + 1 - SAMPLES_PER_CYCLE])
          ELSE [stepped EXCEPT !.dots = a.dots + 1]

Apu_read_register(a, address) ==
  CASE address \in 65296..65300 -> PulseSweepChannel_read_register(a.channel1, address)
    [] address = 65301 -> 255
    [] address \in 65302..65305 -> PulseChannel_read_register(a.channel2, address)
    [] address \in 65306..65310 -> WaveChannel_read_register(a.channel3, address)
    [] address = 65311 -> 255
    [] address \in 65312..65315 -> NoiseChannel_read_register(a.channel4, address)
    [] address = 65316 -> a.nr50
    [] address = 65317 -> a.nr51
    [] address = 65318 -> BitOr(BitOr(a.nr52, enabled_channels(a)), 112)
    [] address \in 65328..65343 -> read_wave_ram(a.channel3, address)

\* The 0xFF26 (NR52) arm of write_register
write_master(a, value) ==
  LET apu_enabled == Apu_is_enabled(a)
      turning_off == apu_enabled /\ ~is_flag_set(value, APU_ENABLE_MASK)
      turning_on == ~apu_enabled /\ is_flag_set(value, APU_ENABLE_MASK)
      cleared ==
        IF turning_off
        THEN [a EXCEPT !.channel1 = PulseSweepChannel_clear_registers(@),
                       !.channel2 = PulseChannel_clear_registers(@),
                       !.channel3 = WaveChannel_clear_registers(@),
                       !.channel4 = NoiseChannel_clear_registers(@),
                       !.nr50 = 0, !.nr51 = 0]
        ELSE a
  IN [cleared EXCEPT !.frame_sequencer_step = IF turning_on THEN 0 ELSE @,
                     !.nr52 = BitAnd(value, 128)]

Apu_write_register(a, address, value) ==
  CASE address \in 65296..65300 ->
         [a EXCEPT !.channel1 =
            PulseSweepChannel_write_register(@, Apu_is_enabled(a), address, value,
                                             a.frame_sequencer_step)]
    [] address = 65301 -> a
    [] address \in 65302..65305 ->
         [a EXCEPT !.channel2 =
            PulseChannel_write_register(@, Apu_is_enabled(a), address, value,
                                        a.frame_sequencer_step)]
    [] address \in 65306..65310 ->
         [a EXCEPT !.channel3 =
            WaveChannel_write_register(@, Apu_is_enabled(a), address, value,
                                       a.frame_sequencer_step)]
    [] address = 65311 -> a
    [] address \in 65312..65315 ->
         [a EXCEPT !.channel4 =
            NoiseChannel_write_register(@, address, value, a.frame_sequencer_step)]
    [] address = 65316 -> IF Apu_is_enabled(a) THEN [a EXCEPT !.nr50 = value] ELSE a
    [] address = 65317 -> IF Apu_is_enabled(a) THEN [a EXCEPT !.nr51 = value] ELSE a
    [] address = 65318 -> write_master(a, value)
    [] address \in 65328..65343 ->
         [a EXCEPT !.channel3 = write_wave_ram(@, address, value)]

----------------------------------------------------------------------------
(* Memory bus and DMA engine (hardware.rs).                                *)

Hardware_new(bytes) ==
  [memory |-> EmptyArray, high_ram |-> EmptyArray, joypad |-> Joypad_new,
   timer |-> Timer_new, ppu |-> Ppu_new, interrupts |-> Interrupts_new,
   cartridge |-> Cartridge_new(bytes), sys_clock |-> SystemClock_new,
   apu |-> Apu_new]

\* Hardware::step_sys_clock
step_sys_clock(h) == [h EXCEPT !.sys_clock = increment_clock(h.sys_clock)]

read_io_register(h, address) ==
  CASE address = 65280 -> Joypad_read_register(h.joypad)
    [] address \in {65281, 65282} -> 0
    [] address \in 65284..65287 -> Timer_read_register(h.timer, address)
    [] address \in (65296..65318) \cup (65328..65343) ->
         Apu_read_register(h.apu, address)
    [] address \in 65344..65355 -> Ppu_read_register(h.ppu, address)
    [] address = 65295 -> requested_bitfield(h.interrupts)
    [] address \in (65283..65407) \ ({65295} \cup (65284..65287) \cup (65296..65318)
                                      \cup (65328..65355)) -> 255

\* A VRAM gate that looks at the PPU mode alone
vram_accessible_by_mode(h) == current_mode(h.ppu) # PixelTransfer

\* The VRAM arm's condition of read_byte and write_byte
vram_accessible(h) ==
  ~display_enabled(h.ppu) \/ current_mode(h.ppu) # PixelTransfer

\* The OAM arm's condition of read_byte and write_byte
oam_accessible(h) ==
  ~display_enabled(h.ppu) \/ current_mode(h.ppu) \notin {OamScan, PixelTransfer}

read_byte(h, address) ==
  CASE address < 32768 -> Cartridge_read_rom(h.cartridge, address)
    [] address \in 32768..40959 ->
         IF vram_accessible(h) THEN read_ram(h.ppu, address) ELSE 255
    [] address \in 40960..49151 -> Cartridge_read_ram(h.cartridge, address)
    [] address \in 49152..57343 -> ArrayGet(h.memory, address - 49152)
    [] address \in 57344..65023 -> ArrayGet(h.memory, address - 57344)
    [] address \in 65024..65183 ->
         IF oam_accessible(h) THEN read_oam(h.ppu, address) ELSE 255
    [] address \in 65184..65279 -> 0
    [] address \in 65280..65407 -> read_io_register(h, address)
    [] address \in 65408..65534 -> ArrayGet(h.high_ram, address - 65408)
    [] address = 65535 -> enabled_bitfield(h.interrupts)

write_io_register(h, address, value) ==
  CASE address = 65280 -> [h EXCEPT !.joypad = Joypad_write_register(h.joypad, value)]
    [] address \in 65284..65287 ->
         [h EXCEPT !.timer = Timer_write_register(h.timer, address, value)]
    [] address \in (65296..65318) \cup (65328..65343) ->
         [h EXCEPT !.apu = Apu_write_register(h.apu, address, value)]
    [] address \in 65344..65355 ->
         [h EXCEPT !.ppu = Ppu_write_register(h.ppu, address, value)]
    [] address = 65295 -> [h EXCEPT !.interrupts = set_requested(h.interrupts, value)]
    [] OTHER -> h

write_byte(h, address, value) ==
  CASE address < 32768 ->
         [h EXCEPT !.cartridge = Cartridge_write_rom(h.cartridge, address, value)]
    [] address \in 32768..40959 ->
         IF vram_accessible(h)
         THEN [h EXCEPT !.ppu = write_ram(h.ppu, address, value)]
         ELSE h
    [] address \in 40960..49151 ->
         [h EXCEPT !.cartridge = Cartridge_write_ram(h.cartridge, address, value)]
    [] address \in 49152..57343 ->
         [h EXCEPT !.memory = ArraySet(h.memory, address - 49152, value)]
    [] address \in 57344..65023 ->
         [h EXCEPT !.memory = ArraySet(h.memory, address - 57344, value)]
    [] address \in 65024..65183 ->
         IF oam_accessible(h)
         THEN [h EXCEPT !.ppu = write_oam(h.ppu, address, value)]
         ELSE h
    [] address \in 65184..65279 -> h
    [] address \in 65280..65407 -> write_io_register(h, address, value)
    [] address \in 65408..65534 ->
         [h EXCEPT !.high_ram = ArraySet(h.high_ram, address - 65408, value)]
    [] address = 65535 -> [h EXCEPT !.interrupts = set_enabled(h.interrupts, value)]

\* Hardware::step_apu
step_apu(h) == [h EXCEPT !.apu = Apu_step(h.apu)]

DMA_TRANSFER_DELAY == 4
CLOCKS_PER_TRANSFER == 4
DMA_TRANSFER_MAX_BYTES == 160
DMA_TRANSFER_DURATION == DMA_TRANSFER_MAX_BYTES * CLOCKS_PER_TRANSFER

step_dma_transfer(h) ==
  LET d == h.ppu.dma_transfer
  IN  CASE d.kind = "Requested" ->
             [h EXCEPT !.ppu.dma_transfer = [kind |-> "Starting", ticks |-> 0]]
        [] d.kind = "Starting" ->
             LET new_ticks == d.ticks + 1
             IN  IF new_ticks = DMA_TRANSFER_DELAY
                 THEN [h EXCEPT !.ppu.dma_transfer = [kind |-> "Transferring", ticks |-> 0]]
                 ELSE [h EXCEPT !.ppu.dma_transfer = [kind |-> "Starting", ticks |-> new_ticks]]
        [] d.kind = "Transferring" ->
             LET new_ticks == d.ticks + 1
                 starting_address == h.ppu.dma * 256
                 index == d.ticks \div CLOCKS_PER_TRANSFER
                 h1 == IF new_ticks % CLOCKS_PER_TRANSFER = 0
                       THEN [h EXCEPT !.ppu = write_oam(h.ppu, 65024 + index,
                                                read_byte(h, starting_address + index))]
                       ELSE h
             IN  IF new_ticks = DMA_TRANSFER_DURATION - CLOCKS_PER_TRANSFER
                 THEN [h1 EXCEPT !.ppu.dma_transfer = NoDma]
                 ELSE [h1 EXCEPT !.ppu.dma_transfer =
                                   [kind |-> "Transferring", ticks |-> new_ticks]]
        [] d.kind = "None" -> h

dma_transfer_running(h) == h.ppu.dma_transfer.kind # "None"

\* The fields of h that a component's step had borrowed, as the step left them
store_back(h, r) ==
  [f \in DOMAIN h |-> IF f \in DOMAIN r THEN r[f] ELSE h[f]]

step_timer(h, cycles) ==
  store_back(h, Timer_step([timer |-> h.timer, interrupts |-> h.interrupts], cycles))

step_ppu(h) ==
  store_back(h, Ppu_step([ppu |-> h.ppu, interrupts |-> h.interrupts]))

\* Hardware::update_button
update_button(h, button, button_state) ==
  store_back(h, update_button_state([joypad |-> h.joypad, interrupts |-> h.interrupts],
                                    button, button_state))

has_pending_interrupts(h) ==
  BitAnd(enabled_bitfield(h.interrupts), requested_bitfield(h.interrupts)) # 0

clear_interrupt(h, interrupt) ==
  [h EXCEPT !.interrupts = Interrupts_clear_interrupt(h.interrupts, interrupt)]

\* Hardware::next_pending_interrupt: the set bit of lowest value of the
\* pending bits, or none
next_pending_interrupt(h) ==
  next_interrupt_from_bitfield(pending_bitfield(h.interrupts))

\* Interrupt::prioritize: the smaller bit index wins
prioritize(old, new) == IF old < new THEN old ELSE new

----------------------------------------------------------------------------
(* CPU (hardware/cpu.rs).  The operators work on the machine               *)
(* m = [cpu |-> ..., hw |-> ...], as the methods take &mut self and        *)
(* &mut Hardware.  t_cycles is kept modulo 4, which is all step reads.     *)

Cpu_new ==
  [state |-> "Running", halt_bug |-> FALSE, interrupt_master_enabled |-> FALSE,
   t_cycles |-> 0, cycle |-> "M1", should_handle_interrupts |-> FALSE,
   last_instruction |-> 0, initial_fetch |-> FALSE, saw_prefix_opcode |-> FALSE,
   pc |-> 0, sp |-> 65535, ir |-> 0,
   a |-> 0, b |-> 0, c |-> 0, d |-> 0, e |-> 0, h |-> 0, l |-> 0,
   flags |-> 0, data_buffer |-> <<0, 0>>]

\* with_register_defaults: new, then set_register_defaults
Cpu_with_register_defaults ==
  [Cpu_new EXCEPT !.a = 1, !.flags = 176, !.b = 0, !.c = 19, !.d = 0, !.e = 216,
                  !.h = 1, !.l = 77, !.sp = 65534, !.pc = 256]

\* Register-pair encodings of PUSH and POP (AF in the place of SP)
REGISTER_PAIR_BC == 0
REGISTER_PAIR_DE == 1
REGISTER_PAIR_HL == 2
REGISTER_PAIR_AF == 3

\* extract_register_pair!: ($opcode >> 4) & 0x03
extract_register_pair(opcode) == (opcode \div 16) % 4

\* Flag bits
FlagZ == 128
FlagN == 64
FlagH == 32
FlagC == 16

toggle_flag(flags, flag, condition) ==
  IF condition THEN add_flag(flags, flag) ELSE remove_flag(flags, flag)

INTERRUPT_CANCELLATION_VECTOR == 0

\* A fetch that advances PC whatever the halt-bug flag says
fetch_byte_always_advancing(m) ==
  [byte |-> read_byte(m.hw, m.cpu.pc),
   cpu |-> [m.cpu EXCEPT !.halt_bug = FALSE, !.pc = wrapping_add16(m.cpu.pc, 1)]]

\* fetch_byte: the byte and the CPU after it
fetch_byte(m) ==
  [byte |-> read_byte(m.hw, m.cpu.pc),
   cpu |-> IF m.cpu.halt_bug
           THEN [m.cpu EXCEPT !.halt_bug = FALSE]
           ELSE [m.cpu EXCEPT !.pc = wrapping_add16(m.cpu.pc, 1)]]

\* self.ir = self.fetch_byte(hardware)
load_ir(f) == [f.cpu EXCEPT !.ir = f.byte]

complete_cycle(m) ==
  [m EXCEPT !.cpu = load_ir(fetch_byte([m EXCEPT !.cpu.cycle = "M1",
                                                 !.cpu.last_instruction = m.cpu.ir]))]

\* self.should_handle_interrupts = self.interrupt_master_enabled && pending
latch_interrupts(m) ==
  [m EXCEPT !.cpu.should_handle_interrupts =
              m.cpu.interrupt_master_enabled /\ has_pending_interrupts(m.hw)]

fetch_cycle(m) == latch_interrupts(complete_cycle(m))

\* A POP that loads F with the popped byte as it is
pop_register_pair_unmasked(c, rp, upper_byte, lower_byte) ==
  CASE rp = REGISTER_PAIR_BC -> [c EXCEPT !.b = upper_byte, !.c = lower_byte]
    [] rp = REGISTER_PAIR_DE -> [c EXCEPT !.d = upper_byte, !.e = lower_byte]
    [] rp = REGISTER_PAIR_HL -> [c EXCEPT !.h = upper_byte, !.l = lower_byte]
    [] rp = REGISTER_PAIR_AF -> [c EXCEPT !.a = upper_byte, !.flags = lower_byte]

\* POP r16, third cycle: the popped bytes go to the register pair
pop_register_pair(c, rp, upper_byte, lower_byte) ==
  CASE rp = REGISTER_PAIR_BC -> [c EXCEPT !.b = upper_byte, !.c = lower_byte]
    [] rp = REGISTER_PAIR_DE -> [c EXCEPT !.d = upper_byte, !.e = lower_byte]
    [] rp = REGISTER_PAIR_HL -> [c EXCEPT !.h = upper_byte, !.l = lower_byte]
    [] rp = REGISTER_PAIR_AF ->
         [c EXCEPT !.a = upper_byte, !.flags = BitAnd(lower_byte, 240)]

\* POP r16
step_pop(m) ==
  CASE m.cpu.cycle = "M1" -> [m EXCEPT !.cpu.cycle = "M2"]
    [] m.cpu.cycle = "M2" ->
         [m EXCEPT !.cpu.data_buffer = <<read_byte(m.hw, m.cpu.sp), @[2]>>,
                   !.cpu.sp = wrapping_add16(m.cpu.sp, 1),
                   !.cpu.cycle = "M3"]
    [] m.cpu.cycle = "M3" ->
         fetch_cycle([m EXCEPT !.cpu =
           [pop_register_pair(m.cpu, extract_register_pair(m.cpu.ir),
                              read_byte(m.hw, m.cpu.sp), m.cpu.data_buffer[1])
              EXCEPT !.sp = wrapping_add16(m.cpu.sp, 1)]])

\* PUSH r16: the bytes of the third and of the fourth cycle
push_upper_byte(c, rp) ==
  CASE rp = REGISTER_PAIR_BC -> c.b
    [] rp = REGISTER_PAIR_DE -> c.d
    [] rp = REGISTER_PAIR_HL -> c.h
    [] rp = REGISTER_PAIR_AF -> c.a

push_lower_byte(c, rp) ==
  CASE rp = REGISTER_PAIR_BC -> c.c
    [] rp = REGISTER_PAIR_DE -> c.e
    [] rp = REGISTER_PAIR_HL -> c.l
    [] rp = REGISTER_PAIR_AF -> c.flags

\* PUSH r16
step_push(m) ==
  CASE m.cpu.cycle = "M1" -> [m EXCEPT !.cpu.cycle = "M2"]
    [] m.cpu.cycle = "M2" ->
         [m EXCEPT !.cpu.sp = wrapping_sub16(m.cpu.sp, 1), !.cpu.cycle = "M3"]
    [] m.cpu.cycle = "M3" ->
         [m EXCEPT !.hw = write_byte(m.hw, m.cpu.sp,
                                     push_upper_byte(m.cpu, extract_register_pair(m.cpu.ir))),
                   !.cpu.sp = wrapping_sub16(m.cpu.sp, 1),
                   !.cpu.cycle = "M4"]
    [] m.cpu.cycle = "M4" ->
         fetch_cycle([m EXCEPT !.hw =
           write_byte(m.hw, m.cpu.sp,
                      push_lower_byte(m.cpu, extract_register_pair(m.cpu.ir)))])


\* ADD A, imm8: the accumulator and the flags
alu_add(c, imm8) ==
  LET a_value == c.a
      res == wrapping_add8(a_value, imm8)
  IN  [c EXCEPT !.a = res,
                !.flags = toggle_flag(toggle_flag(toggle_flag(toggle_flag(c.flags,
                            FlagZ, res = 0),
                            FlagN, FALSE),
                            FlagH, (a_value % 16) + (imm8 % 16) > 15),
                            FlagC, a_value + imm8 > 255)]

\* SUB A, imm8: the accumulator and the flags
alu_sub(c, imm8) ==
  LET a_value == c.a
      res == wrapping_sub8(a_value, imm8)
  IN  [c EXCEPT !.a = res,
                !.flags = toggle_flag(toggle_flag(toggle_flag(toggle_flag(c.flags,
                            FlagZ, res = 0),
                            FlagN, TRUE),
                            FlagH, (a_value % 16) < (imm8 % 16)),
                            FlagC, a_value < imm8)]

\* let imm8 = self.fetch_byte(hardware), then the arithmetic on it
add_fetched(f) == alu_add(f.cpu, f.byte)
sub_fetched(f) == alu_sub(f.cpu, f.byte)

\* ADD A, imm8
step_add_imm8(m) ==
  CASE m.cpu.cycle = "M1" -> [m EXCEPT !.cpu.cycle = "M2"]
    [] m.cpu.cycle = "M2" -> fetch_cycle([m EXCEPT !.cpu = add_fetched(fetch_byte(m))])

\* SUB A, imm8
step_sub_imm8(m) ==
  CASE m.cpu.cycle = "M1" -> [m EXCEPT !.cpu.cycle = "M2"]
    [] m.cpu.cycle = "M2" -> fetch_cycle([m EXCEPT !.cpu = sub_fetched(fetch_byte(m))])

\* A DAA that corrects the low digit only when it is above 9
daa_ignoring_half_carry(c) ==
  LET subtracted == is_flag_set(c.flags, FlagN)
      carried == is_flag_set(c.flags, FlagC)
      lower == IF ~subtracted /\ (c.a % 16) > 9 THEN 6 ELSE 0
      upper == carried \/ (~subtracted /\ c.a > 153)
      correction == lower + (IF upper THEN 96 ELSE 0)
      res == IF subtracted THEN wrapping_sub8(c.a, correction)
             ELSE wrapping_add8(c.a, correction)
  IN  [c EXCEPT !.a = res,
                !.flags = toggle_flag(toggle_flag(toggle_flag(c.flags,
                            FlagZ, res = 0), FlagH, FALSE), FlagC, upper)]

\* DAA: the accumulator and the flags
daa(c) ==
  LET subtracted == is_flag_set(c.flags, FlagN)
      half_carried == is_flag_set(c.flags, FlagH)
      carried == is_flag_set(c.flags, FlagC)
      lower == IF half_carried \/ (~subtracted /\ (c.a % 16) > 9) THEN 6 ELSE 0
      upper == carried \/ (~subtracted /\ c.a > 153)
      correction == lower + (IF upper THEN 96 ELSE 0)
      res == IF subtracted THEN wrapping_sub8(c.a, correction)
             ELSE wrapping_add8(c.a, correction)
  IN  [c EXCEPT !.a = res,
                !.flags = toggle_flag(toggle_flag(toggle_flag(c.flags,
                            FlagZ, res = 0), FlagH, FALSE), FlagC, upper)]

\* perform_with_register!: the register an operand code names (6 is [HL])
read_register(c, r) ==
  CASE r = 0 -> c.b [] r = 1 -> c.c [] r = 2 -> c.d [] r = 3 -> c.e
    [] r = 4 -> c.h [] r = 5 -> c.l [] r = 7 -> c.a

\* write_to_register!
write_to_register(c, r, value) ==
  CASE r = 0 -> [c EXCEPT !.b = value] [] r = 1 -> [c EXCEPT !.c = value]
    [] r = 2 -> [c EXCEPT !.d = value] [] r = 3 -> [c EXCEPT !.e = value]
    [] r = 4 -> [c EXCEPT !.h = value] [] r = 5 -> [c EXCEPT !.l = value]
    [] r = 7 -> [c EXCEPT !.a = value]

\* extract_src_register!: $opcode & 0x07
extract_src_register(opcode) == opcode % 8

\* SET b, r8 (prefixed 0xC0..0xFF, register operand)
step_set(m) ==
  LET src_reg == extract_src_register(m.cpu.ir)
      new_value == BitOr(read_register(m.cpu, src_reg), 2 ^ ((m.cpu.ir \div 8) % 8))
  IN  fetch_cycle([m EXCEPT !.cpu = [write_to_register(m.cpu, src_reg, new_value)
                                       EXCEPT !.saw_prefix_opcode = FALSE]])

\* A prefix that ends like any other instruction, latching the dispatch
step_prefix_latching(m) == fetch_cycle([m EXCEPT !.cpu.saw_prefix_opcode = TRUE])

\* PREFIX (0xCB)
step_prefix(m) == complete_cycle([m EXCEPT !.cpu.saw_prefix_opcode = TRUE])

\* RETI
step_reti(m) ==
  CASE m.cpu.cycle = "M1" -> [m EXCEPT !.cpu.cycle = "M2"]
    [] m.cpu.cycle = "M2" ->
         [m EXCEPT !.cpu.data_buffer[1] = read_byte(m.hw, m.cpu.sp),
                   !.cpu.sp = wrapping_add16(m.cpu.sp, 1),
                   !.cpu.cycle = "M3"]
    [] m.cpu.cycle = "M3" ->
         [m EXCEPT !.cpu.data_buffer[2] = read_byte(m.hw, m.cpu.sp),
                   !.cpu.sp = wrapping_add16(m.cpu.sp, 1),
                   !.cpu.cycle = "M4"]
    [] m.cpu.cycle = "M4" ->
         fetch_cycle([m EXCEPT !.cpu.pc = m.cpu.data_buffer[2] * 256 + m.cpu.data_buffer[1],
                               !.cpu.interrupt_master_enabled = TRUE])

\* get_conditional_flag!: ($opcode >> 3) & 0x03, NZ, Z, NC, C
get_conditional_flag(opcode) == (opcode \div 8) % 4

is_conditional_flag_set(c, cc) ==
  CASE cc = 0 -> ~is_flag_set(c.flags, FlagZ)
    [] cc = 1 -> is_flag_set(c.flags, FlagZ)
    [] cc = 2 -> ~is_flag_set(c.flags, FlagC)
    [] cc = 3 -> is_flag_set(c.flags, FlagC)

\* self.data_buffer[i] = self.fetch_byte(hardware), then the next cycle
fetch_operand(m, i, next) ==
  LET f == fetch_byte(m)
  IN  [m EXCEPT !.cpu = [f.cpu EXCEPT !.data_buffer[i] = f.byte, !.cycle = next]]

buffer_address(c) == c.data_buffer[2] * 256 + c.data_buffer[1]

\* A conditional branch that is never taken
after_operands_never_taken(m, taken, next) == fetch_cycle(m)

\* if self.is_conditional_flag_set(cc) { self.cycle = next } else { fetch_cycle }
after_operands(m, taken, next) ==
  IF taken THEN [m EXCEPT !.cpu.cycle = next] ELSE fetch_cycle(m)

\* CALL cc, imm16 and CALL imm16 (taken is TRUE)
step_call(m, taken) ==
  CASE m.cpu.cycle = "M1" -> [m EXCEPT !.cpu.cycle = "M2"]
    [] m.cpu.cycle = "M2" -> fetch_operand(m, 1, "M3")
    [] m.cpu.cycle = "M3" -> after_operands(fetch_operand(m, 2, "M3"), taken, "M4")
    [] m.cpu.cycle = "M4" ->
         [m EXCEPT !.cpu.sp = wrapping_sub16(m.cpu.sp, 1), !.cpu.cycle = "M5"]
    [] m.cpu.cycle = "M5" ->
         [m EXCEPT !.hw = write_byte(m.hw, m.cpu.sp, m.cpu.pc \div 256),
                   !.cpu.sp = wrapping_sub16(m.cpu.sp, 1),
                   !.cpu.cycle = "M6"]
    [] m.cpu.cycle = "M6" ->
         fetch_cycle([m EXCEPT !.hw = write_byte(m.hw, m.cpu.sp, m.cpu.pc % 256),
                               !.cpu.pc = buffer_address(m.cpu)])

\* JP cc, imm16 and JP imm16 (taken is TRUE)
step_jp(m, taken) ==
  CASE m.cpu.cycle = "M1" -> [m EXCEPT !.cpu.cycle = "M2"]
    [] m.cpu.cycle = "M2" -> fetch_operand(m, 1, "M3")
    [] m.cpu.cycle = "M3" -> after_operands(fetch_operand(m, 2, "M3"), taken, "M4")
    [] m.cpu.cycle = "M4" -> fetch_cycle([m EXCEPT !.cpu.pc = buffer_address(m.cpu)])

\* JP HL
step_jp_hl(m) == fetch_cycle([m EXCEPT !.cpu.pc = m.cpu.h * 256 + m.cpu.l])

\* self.data_buffer[0] as i8 as u16
sign_extend(byte) == IF byte >= 128 THEN byte + 65280 ELSE byte

\* JR cc, imm8 and JR imm8 (taken is TRUE)
step_jr(m, taken) ==
  CASE m.cpu.cycle = "M1" -> [m EXCEPT !.cpu.cycle = "M2"]
    [] m.cpu.cycle = "M2" -> after_operands(fetch_operand(m, 1, "M2"), taken, "M3")
    [] m.cpu.cycle = "M3" ->
         fetch_cycle([m EXCEPT !.cpu.pc =
                        wrapping_add16(m.cpu.pc, sign_extend(m.cpu.data_buffer[1]))])

\* the three cycles that pop PC, from cycle first on
pop_pc(m, first, second, third) ==
  CASE m.cpu.cycle = first ->
         [m EXCEPT !.cpu.data_buffer[1] = read_byte(m.hw, m.cpu.sp),
                   !.cpu.sp = wrapping_add16(m.cpu.sp, 1),
                   !.cpu.cycle = second]
    [] m.cpu.cycle = second ->
         [m EXCEPT !.cpu.data_buffer[2] = read_byte(m.hw, m.cpu.sp),
                   !.cpu.sp = wrapping_add16(m.cpu.sp, 1),
                   !.cpu.cycle = third]
    [] m.cpu.cycle = third -> fetch_cycle([m EXCEPT !.cpu.pc = buffer_address(m.cpu)])

\* RET cc
step_ret_cc(m) ==
  CASE m.cpu.cycle = "M1" -> [m EXCEPT !.cpu.cycle = "M2"]
    [] m.cpu.cycle = "M2" ->
         after_operands(m, is_conditional_flag_set(m.cpu, get_conditional_flag(m.cpu.ir)),
                        "M3")
    [] OTHER -> pop_pc(m, "M3", "M4", "M5")

\* RET
step_ret(m) ==
  IF m.cpu.cycle = "M1" THEN [m EXCEPT !.cpu.cycle = "M2"]
  ELSE pop_pc(m, "M2", "M3", "M4")

\* The opcodes with no instruction
UnusedOpcodes == {211, 219, 221, 227, 228, 235, 236, 237, 244, 252, 253}

\* An unused opcode that is skipped like a NOP
step_unused_as_nop(m) == fetch_cycle(m)

\* Unused opcodes, in a build without debug assertions: debug_assert! is
\* compiled out and the arm does nothing
step_unused(m) == m

\* step_instruction, for the opcodes modelled
step_instruction(m) ==
  LET opcode == m.cpu.ir
  IN  CASE ~m.cpu.saw_prefix_opcode /\ opcode = 0 /\ m.cpu.cycle = "M1" ->
             fetch_cycle(m)
        [] ~m.cpu.saw_prefix_opcode /\ opcode = 198 -> step_add_imm8(m)
        [] ~m.cpu.saw_prefix_opcode /\ opcode = 214 -> step_sub_imm8(m)
        [] ~m.cpu.saw_prefix_opcode /\ opcode = 39 /\ m.cpu.cycle = "M1" ->
             fetch_cycle([m EXCEPT !.cpu = daa(m.cpu)])
        [] ~m.cpu.saw_prefix_opcode /\ opcode \in {193, 209, 225, 241} -> step_pop(m)
        [] ~m.cpu.saw_prefix_opcode /\ opcode \in {197, 213, 229, 245} -> step_push(m)
        [] ~m.cpu.saw_prefix_opcode /\ opcode = 118 /\ m.cpu.cycle = "M1" ->
             IF ~m.cpu.interrupt_master_enabled /\ has_pending_interrupts(m.hw)
             THEN fetch_cycle([m EXCEPT !.cpu.halt_bug = TRUE, !.cpu.state = "Running"])
             ELSE fetch_cycle([m EXCEPT !.cpu.state = "Halted"])
        [] ~m.cpu.saw_prefix_opcode /\ opcode = 243 /\ m.cpu.cycle = "M1" ->
             complete_cycle([m EXCEPT !.cpu.interrupt_master_enabled = FALSE])
        [] ~m.cpu.saw_prefix_opcode /\ opcode = 251 /\ m.cpu.cycle = "M1" ->
             fetch_cycle(m)
        [] ~m.cpu.saw_prefix_opcode /\ opcode = 217 -> step_reti(m)
        [] ~m.cpu.saw_prefix_opcode /\ opcode \in UnusedOpcodes -> step_unused(m)
        [] ~m.cpu.saw_prefix_opcode /\ opcode \in {196, 212, 204, 220} ->
             step_call(m, is_conditional_flag_set(m.cpu, get_conditional_flag(opcode)))
        [] ~m.cpu.saw_prefix_opcode /\ opcode = 205 -> step_call(m, TRUE)
        [] ~m.cpu.saw_prefix_opcode /\ opcode \in {194, 210, 202, 218} ->
             step_jp(m, is_conditional_flag_set(m.cpu, get_conditional_flag(opcode)))
        [] ~m.cpu.saw_prefix_opcode /\ opcode = 195 -> step_jp(m, TRUE)
        [] ~m.cpu.saw_prefix_opcode /\ opcode = 233 /\ m.cpu.cycle = "M1" -> step_jp_hl(m)
        [] ~m.cpu.saw_prefix_opcode /\ opcode \in {32, 48, 40, 56} ->
             step_jr(m, is_conditional_flag_set(m.cpu, get_conditional_flag(opcode)))
        [] ~m.cpu.saw_prefix_opcode /\ opcode = 24 -> step_jr(m, TRUE)
        [] ~m.cpu.saw_prefix_opcode /\ opcode \in {192, 208, 200, 216} -> step_ret_cc(m)
        [] ~m.cpu.saw_prefix_opcode /\ opcode = 201 -> step_ret(m)
        [] ~m.cpu.saw_prefix_opcode /\ opcode = 203 -> step_prefix(m)
        [] m.cpu.saw_prefix_opcode /\ opcode \in 192..255 /\ opcode % 8 # 6
           /\ m.cpu.cycle = "M1" -> step_set(m)

\* A choice that looks at the interrupts pending after the push alone
choose_interrupt_after_push(prev_interrupt, curr_interrupt) == curr_interrupt

\* The match of step_interrupts' fourth cycle on the interrupts pending before
\* and after the push of PC's low byte
choose_interrupt(prev_interrupt, curr_interrupt) ==
  CASE prev_interrupt = 0 /\ curr_interrupt # 0 -> curr_interrupt
    [] prev_interrupt # 0 /\ curr_interrupt = 0 -> prev_interrupt
    [] prev_interrupt # 0 /\ curr_interrupt # 0 -> prioritize(prev_interrupt, curr_interrupt)
    [] prev_interrupt = 0 /\ curr_interrupt = 0 -> 0

\* The jump of the fourth cycle: h1 is the hardware after the push
jump_to_vector(m, h1, interrupt) ==
  [m EXCEPT !.hw = IF interrupt # 0 THEN clear_interrupt(h1, interrupt) ELSE h1,
            !.cpu.pc = IF interrupt = 0 THEN INTERRUPT_CANCELLATION_VECTOR
                       ELSE to_vector(interrupt),
            !.cpu.interrupt_master_enabled = FALSE,
            !.cpu.cycle = "M5"]

\* The fourth cycle: h1 is the hardware after the push
choose_and_jump(m, h1) ==
  jump_to_vector(m, h1, choose_interrupt(next_pending_interrupt(m.hw),
                                         next_pending_interrupt(h1)))

\* A servicing that pushes without the cycle that decrements SP first
step_interrupts_four_cycles(m) ==
  CASE m.cpu.cycle = "M1" ->
         [m EXCEPT !.cpu.pc = wrapping_sub16(m.cpu.pc, 1),
                   !.cpu.sp = wrapping_sub16(m.cpu.sp, 1),
                   !.cpu.cycle = "M3"]
    [] m.cpu.cycle = "M3" ->
         [m EXCEPT !.hw = write_byte(m.hw, m.cpu.sp, m.cpu.pc \div 256),
                   !.cpu.sp = wrapping_sub16(m.cpu.sp, 1),
                   !.cpu.cycle = "M4"]
    [] m.cpu.cycle = "M4" ->
         choose_and_jump(m, write_byte(m.hw, m.cpu.sp, BitAnd(m.cpu.pc, 255)))
    [] m.cpu.cycle = "M5" ->
         fetch_cycle([m EXCEPT !.cpu.state = "Running"])

step_interrupts(m) ==
  CASE m.cpu.cycle = "M1" ->
         [m EXCEPT !.cpu.pc = wrapping_sub16(m.cpu.pc, 1), !.cpu.cycle = "M2"]
    [] m.cpu.cycle = "M2" ->
         [m EXCEPT !.cpu.sp = wrapping_sub16(m.cpu.sp, 1), !.cpu.cycle = "M3"]
    [] m.cpu.cycle = "M3" ->
         [m EXCEPT !.hw = write_byte(m.hw, m.cpu.sp, m.cpu.pc \div 256),
                   !.cpu.sp = wrapping_sub16(m.cpu.sp, 1),
                   !.cpu.cycle = "M4"]
    [] m.cpu.cycle = "M4" ->
         choose_and_jump(m, write_byte(m.hw, m.cpu.sp, BitAnd(m.cpu.pc, 255)))
    [] m.cpu.cycle = "M5" ->
         fetch_cycle([m EXCEPT !.cpu.state = "Running"])

\* The third T-cycle of Cpu::step: the latched request is taken up
Cpu_step_t3(m) ==
  IF m.cpu.should_handle_interrupts
  THEN [m EXCEPT !.cpu.state = "HandlingInterrupts"]
  ELSE m

\* The fourth T-cycle of Cpu::step: the match on the CPU's state
Cpu_step_t4(m) ==
  CASE m.cpu.state = "Running" -> step_instruction(m)
    [] m.cpu.state = "HandlingInterrupts" -> step_interrupts(m)
    [] m.cpu.state = "Halted" ->
         IF has_pending_interrupts(m.hw)
         THEN IF m.cpu.interrupt_master_enabled
              THEN [m EXCEPT !.cpu.should_handle_interrupts = TRUE]
              ELSE [m EXCEPT !.cpu.state = "Running"]
         ELSE m
    [] m.cpu.state = "Stopped" -> m

\* A step in which EI takes effect on the T3 after it already
Cpu_step_phase_ei_at_t3(m) ==
  CASE m.cpu.t_cycles \in {1, 2} -> m
    [] m.cpu.t_cycles = 3 ->
         Cpu_step_t3(IF ~m.cpu.initial_fetch
                     THEN [fetch_cycle(m) EXCEPT !.cpu.initial_fetch = TRUE]
                     ELSE IF m.cpu.last_instruction = 251
                          THEN [m EXCEPT !.cpu.interrupt_master_enabled = TRUE]
                          ELSE m)
    [] m.cpu.t_cycles = 0 ->
         Cpu_step_t4(IF m.cpu.last_instruction = 251
                     THEN [m EXCEPT !.cpu.interrupt_master_enabled = TRUE]
                     ELSE m)

\* Cpu::step after the count of the T-cycle
Cpu_step_phase(m) ==
  CASE m.cpu.t_cycles \in {1, 2} -> m
    [] m.cpu.t_cycles = 3 ->
         Cpu_step_t3(IF ~m.cpu.initial_fetch
                     THEN [fetch_cycle(m) EXCEPT !.cpu.initial_fetch = TRUE]
                     ELSE m)
    [] m.cpu.t_cycles = 0 ->
         Cpu_step_t4(IF m.cpu.last_instruction = 251
                     THEN [m EXCEPT !.cpu.interrupt_master_enabled = TRUE]
                     ELSE m)

\* Cpu::step: one T-cycle
Cpu_step(m) == Cpu_step_phase([m EXCEPT !.cpu.t_cycles = (m.cpu.t_cycles + 1) % 4])

----------------------------------------------------------------------------
(* ROM images and the idle CPU shared by the specifications.               *)

RomLen == 32768

\* A ROM of NOPs with a data table in the switchable bank's area
NopRom == [len |-> RomLen, base |-> 0, code |-> <<>>, data |-> 16384]

\* A ROM with the given code at address base
CodeRom(base, code) == [len |-> RomLen, base |-> base, code |-> code, data |-> 16384]

NoHist ==
  [op |-> "none", addr |-> 0, value |-> 0, ret |-> 0, old |-> 0, n |-> 0,
   starts |-> 0, writes |-> 0, since |-> 0, sig |-> FALSE]

----------------------------------------------------------------------------
(* SpecBus: CPU accesses to VRAM and OAM through the bus while the PPU     *)
(* runs through its modes.                                                 *)

\* dots the PPU is stepped in SpecBus
MaxDots == 2

\* first and last address of VRAM and of OAM
VramAddrs == {32768, 40959}
OamAddrs == {65024, 65183}
BusVals == {90, 255}

\* The PPU just before each of its mode changes: <<mode, dot counter, LY>>
PpuPoints ==
  {<<OamScan, 79, 0>>, <<PixelTransfer, 171, 0>>, <<HBlank, 203, 0>>,
   <<HBlank, 203, 143>>, <<VBlankMode, 455, 153>>}

BusInit ==
  /\ \E pt \in PpuPoints :
       hw = [Hardware_new(NopRom) EXCEPT !.ppu.stat = pt[1],
                                         !.ppu.counter = pt[2],
                                         !.ppu.ly = pt[3]]
  /\ cpu = Cpu_with_register_defaults
  /\ hist = NoHist

\* Hardware::write_byte called by a store of the CPU
BusWrite(a, v) ==
  /\ hw' = write_byte(hw, a, v)
  /\ hist' = [NoHist EXCEPT !.op = "write", !.addr = a, !.value = v, !.n = hist.n]
  /\ UNCHANGED cpu

\* Hardware::read_byte called by a load of the CPU
BusRead(a) ==
  /\ hist' = [NoHist EXCEPT !.op = "read", !.addr = a, !.ret = read_byte(hw, a),
                            !.n = hist.n]
  /\ UNCHANGED <<hw, cpu>>

\* Hardware::step_ppu
BusPpuStep ==
  /\ hist.n < MaxDots
  /\ hw' = step_ppu(hw)
  /\ hist' = [NoHist EXCEPT !.op = "ppu", !.n = hist.n + 1]
  /\ UNCHANGED cpu

BusNext ==
  \/ \E a \in VramAddrs \cup OamAddrs, v \in BusVals : BusWrite(a, v)
  \/ \E v \in {0, 128} : BusWrite(65344, v)
  \/ \E a \in VramAddrs \cup OamAddrs : BusRead(a)
  \/ BusPpuStep

SpecBus == BusInit /\ [][BusNext]_vars

\* The gates as the claim words them, from the registers themselves
LcdOn(h) == (h.ppu.lcdc \div 128) % 2 = 1
ModeBits(h) == h.ppu.stat % 4
VramGated(h) == LcdOn(h) /\ ModeBits(h) = 3
OamGated(h) == LcdOn(h) /\ ModeBits(h) \in {2, 3}
StoredVram(h, a) == ArrayGet(h.ppu.memory, a - 32768)
StoredOam(h, a) == ArrayGet(h.ppu.oam, a - 65024)

\* What a bus access of the step did, by the gates of the state before it
C1_Step ==
  /\ \A a \in VramAddrs :
       read_byte(hw', a) = IF VramGated(hw') THEN 255 ELSE StoredVram(hw', a)
  /\ \A a \in OamAddrs :
       read_byte(hw', a) = IF OamGated(hw') THEN 255 ELSE StoredOam(hw', a)
  /\ (hist'.op = "read" /\ hist'.addr \in VramAddrs) =>
       hist'.ret = IF VramGated(hw) THEN 255 ELSE StoredVram(hw, hist'.addr)
  /\ (hist'.op = "read" /\ hist'.addr \in OamAddrs) =>
       hist'.ret = IF OamGated(hw) THEN 255 ELSE StoredOam(hw, hist'.addr)
  /\ (hist'.op = "write" /\ hist'.addr \in VramAddrs) =>
       IF VramGated(hw)
       THEN hw' = hw
       ELSE /\ StoredVram(hw', hist'.addr) = hist'.value
            /\ hw'.ppu.oam = hw.ppu.oam
            /\ \A b \in VramAddrs \ {hist'.addr} : StoredVram(hw', b) = StoredVram(hw, b)
  /\ (hist'.op = "write" /\ hist'.addr \in OamAddrs) =>
       IF OamGated(hw)
       THEN hw' = hw
       ELSE /\ StoredOam(hw', hist'.addr) = hist'.value
            /\ hw'.ppu.memory = hw.ppu.memory
            /\ \A b \in OamAddrs \ {hist'.addr} : StoredOam(hw', b) = StoredOam(hw, b)

\* C1: a read of gated VRAM/OAM returns 0xFF and a write to it leaves the
\* memory unchanged; an ungated read returns the stored byte and an ungated
\* write stores the value.
C1_GatedAccess == [][C1_Step]_vars

\* C1 witness: in OAM scan with the LCD on, the last access was a write of
\* 0xFF to an OAM cell that still holds the 0x5A stored before (dropped)
C1_Witness ==
  /\ hist.op = "write" /\ hist.addr \in OamAddrs /\ hist.value = 255
  /\ LcdOn(hw) /\ ModeBits(hw) = 2
  /\ StoredOam(hw, hist.addr) = 90

----------------------------------------------------------------------------
(* Frame scheduler (emulator.rs): one T-cycle of the loop body of          *)
(* Emulator::step.  The timer is stepped before the CPU on T3, after it on *)
(* the other phases; then PPU, APU and DMA engine.                         *)

EmulatorTimer(m) == [m EXCEPT !.hw = step_timer(m.hw, 1)]

EmulatorDevices(m) == [m EXCEPT !.hw = step_dma_transfer(step_apu(step_ppu(m.hw)))]

EmulatorClock(m) == [m EXCEPT !.hw = step_sys_clock(m.hw)]

\* The components' steps of one T-cycle, after the clock's
EmulatorComponents(m) ==
  EmulatorDevices(IF (m.cpu.t_cycles + 1) % 4 = 3
                  THEN Cpu_step(EmulatorTimer(m))
                  ELSE EmulatorTimer(Cpu_step(m)))

EmulatorTick(m) == EmulatorComponents(EmulatorClock(m))

----------------------------------------------------------------------------
(* SpecDma: an OAM DMA transfer under the frame scheduler, with the CPU    *)
(* running NOPs and accessing OAM.                                         *)

\* T-cycles run in SpecDma
MaxDmaTicks == 660
\* writes to the DMA-source register
MaxDmaStarts == 1
\* the CPU's OAM writes, and the last T-cycle at which it makes one
MaxOamWrites == 1
MaxOamWriteTick == 12

\* DMA source pages: ROM data table, VRAM
DmaSources == {64, 128}
\* where the CPU runs: work RAM, high RAM
DmaPcs == {49152, 65408}
\* the PPU at the start of a visible line and of the last line before VBlank
DmaPpuPoints == {<<OamScan, 0, 0>>, <<HBlank, 0, 143>>}

DmaInit ==
  /\ \E pt \in DmaPpuPoints, lcdc \in {0, 128} :
       hw = [Hardware_new(NopRom) EXCEPT !.ppu.stat = pt[1],
                                         !.ppu.counter = pt[2],
                                         !.ppu.ly = pt[3],
                                         !.ppu.lcdc = lcdc]
  /\ \E pc \in DmaPcs : cpu = [Cpu_with_register_defaults EXCEPT !.pc = pc]
  /\ hist = NoHist

\* One T-cycle of the scheduler
DmaTick ==
  /\ hist.n < MaxDmaTicks
  /\ LET m == EmulatorTick([cpu |-> cpu, hw |-> hw])
     IN  /\ hw' = m.hw
         /\ cpu' = m.cpu
  /\ hist' = [hist EXCEPT !.op = "tick", !.n = hist.n + 1]

\* The CPU's write to the DMA-source register (on its T4, before the other
\* components are stepped)
DmaWriteSource(s) ==
  /\ cpu.t_cycles = 3
  /\ hist.starts < MaxDmaStarts
  /\ hist.n < 4
  /\ hw' = write_byte(hw, 65350, s)
  /\ hist' = [hist EXCEPT !.op = "dma", !.value = s, !.starts = hist.starts + 1]
  /\ UNCHANGED cpu

\* A CPU store to OAM
DmaOamWrite(a, v) ==
  /\ cpu.t_cycles = 3
  /\ hist.writes < MaxOamWrites
  /\ hist.n < MaxOamWriteTick
  /\ hw' = write_byte(hw, a, v)
  /\ hist' = [hist EXCEPT !.op = "write", !.addr = a, !.value = v,
                          !.old = StoredOam(hw, a),
                          !.ret = IF hw.ppu.dma_transfer.kind = "None" THEN 0 ELSE 1,
                          !.writes = hist.writes + 1]
  /\ UNCHANGED cpu

DmaNext ==
  \/ DmaTick
  \/ \E s \in DmaSources : DmaWriteSource(s)
  \/ \E a \in OamAddrs, v \in {90} : DmaOamWrite(a, v)

SpecDma == DmaInit /\ [][DmaNext]_vars

DmaActive(h) == h.ppu.dma_transfer.kind # "None"
DmaTransferring(h) == h.ppu.dma_transfer.kind = "Transferring"

\* C8: after a write of s to the DMA-source register the engine copies 160
\* bytes, OAM[i] := the byte the bus returns for (s << 8) + i, i = 0..159,
\* and is idle after the 160th copy  (s a ROM page here, whose bytes the bus
\* returns at every time alike).
C8_DmaCopies160 ==
  (hist.starts > 0 /\ hw.ppu.dma < 128 /\ ~DmaActive(hw) /\ hist.writes = 0) =>
    \A i \in 0..159 : StoredOam(hw, 65024 + i) = read_byte(hw, hw.ppu.dma * 256 + i)

\* C9: a CPU fetch from below 0xFF80 while the DMA engine is transferring
\* byte i delivers the byte read from (source << 8) + i, and PC advances by
\* one; a fetch from 0xFF80 and above delivers the byte at PC.
C9_FetchStep ==
  (cpu.t_cycles = 3 /\ cpu'.t_cycles = 0 /\ cpu.state = "Running"
     /\ hist'.op = "tick" /\ DmaTransferring(hw)) =>
    /\ cpu'.pc = (cpu.pc + 1) % 65536
    /\ cpu'.ir = IF cpu.pc < 65408
                 THEN read_byte(hw, hw.ppu.dma * 256 + (hw.ppu.dma_transfer.ticks \div 4))
                 ELSE read_byte(hw, cpu.pc)

C9_FetchThroughDma == [][C9_FetchStep]_vars

\* C10: while a DMA transfer is active every CPU read of OAM returns 0xFF and
\* every CPU write to OAM is dropped, in every PPU mode and with the LCD off.
C10_OamGatedByDma ==
  /\ DmaActive(hw) => \A a \in OamAddrs : read_byte(hw, a) = 255
  /\ (hist.op = "write" /\ hist.ret = 1) => StoredOam(hw, hist.addr) = hist.old

----------------------------------------------------------------------------
(* SpecTimer: the divider/timer under the frame scheduler, with the CPU    *)
(* storing to DIV, TIMA, TMA and TAC.  A store is made by the CPU's step   *)
(* on T4, so there is at most one per M-cycle and the timer is stepped     *)
(* four times between two stores.                                          *)

\* T-cycles run in SpecTimer, and the CPU's stores to the timer's registers
MaxTimerTicks == 12
MaxTimerWrites == 2

DIV == 65284
TIMA == 65285
TMA == 65286
TAC == 65287

\* Internal counters 8 and 7 T-cycles before bits 3, 5, 7 and 9 fall together
\* (0x3F8, as after power-on: the fall is on T4; 0x3F9, as after a write to
\* DIV: the fall is on T3), and 7 T-cycles before the counter wraps (0xFFF9)
TimerCounters == {1016, 1017, 65529}
TimerTimas == {254, 255}
TacValues == (0..7) \cup {253}

\* The claims' signal, from the registers themselves: the enable bit of TAC
\* and the bit of the counter that TAC's two low bits select
SelectedBit(tac) ==
  CASE tac % 4 = 0 -> 9
    [] tac % 4 = 1 -> 3
    [] tac % 4 = 2 -> 5
    [] tac % 4 = 3 -> 7
TimerSignal(t) ==
  /\ (t.tac \div 4) % 2 = 1
  /\ (t.counter \div (2 ^ SelectedBit(t.tac))) % 2 = 1
TimerRequested(h) == (h.interrupts.requested \div 4) % 2 = 1

TimerInit ==
  /\ \E c \in TimerCounters, tac \in 0..7, tima \in TimerTimas :
       /\ hw = [Hardware_new(NopRom) EXCEPT
                  !.timer.counter = c, !.timer.tac = tac, !.timer.tima = tima,
                  !.timer.prev_and_result = and_result(tac, c)]
       /\ hist = [NoHist EXCEPT !.sig = TimerSignal(hw.timer)]
  /\ cpu = Cpu_with_register_defaults

\* One T-cycle of the scheduler
TimerTick ==
  /\ hist.n < MaxTimerTicks
  /\ LET m == EmulatorTick([cpu |-> cpu, hw |-> hw])
     IN  /\ hw' = m.hw
         /\ cpu' = m.cpu
         /\ hist' = [hist EXCEPT !.op = "tick", !.n = hist.n + 1,
                                 !.since = hist.since + 1,
                                 !.sig = TimerSignal(m.hw.timer)]

\* A store of the CPU to a register of the timer (on its T4, before the
\* timer is stepped)
TimerWrite(a, v) ==
  /\ cpu.t_cycles = 3
  /\ hist.op # "write"
  /\ hist.writes < MaxTimerWrites
  /\ hw' = write_byte(hw, a, v)
  /\ hist' = [hist EXCEPT !.op = "write", !.addr = a, !.value = v,
                          !.old = IF TimerSignal(hw.timer) THEN 1 ELSE 0,
                          !.ret = IF hw.timer.overflowed THEN 1 ELSE 0,
                          !.since = 0,
                          !.writes = hist.writes + 1]
  /\ UNCHANGED cpu

TimerNext ==
  \/ TimerTick
  \/ TimerWrite(DIV, 90)
  \/ TimerWrite(TIMA, 15)
  \/ TimerWrite(TMA, 28)
  \/ \E v \in TacValues : TimerWrite(TAC, v)

SpecTimer == TimerInit /\ [][TimerNext]_vars

\* hist in SpecTimer: op is the last action ("tick" or "write"); addr, value
\* the CPU's last store, old the signal just before it (0 or 1), ret whether
\* an overflow was pending at it (0 or 1); since counts the T-cycles after it;
\* sig is the signal at the end of the last T-cycle.
IsTick == hist'.op = "tick"
LastWrite(a) == hist.writes > 0 /\ hist.addr = a

\* C4: at a timer step TIMA is incremented, by one, exactly when the AND of
\* the enable bit and the selected counter bit was 1 at the end of the step
\* before and is 0 at the end of this one; a step with an overflow pending
\* is the reload from TMA, and none falls together with a 1 -> 0 transition.
C4_Step ==
  IsTick =>
    IF hw.timer.overflowed
    THEN /\ ~(hist.sig /\ ~TimerSignal(hw'.timer))
         /\ hw'.timer.tima = hw.timer.tma
    ELSE hw'.timer.tima = IF hist.sig /\ ~TimerSignal(hw'.timer)
                          THEN (hw.timer.tima + 1) % 256
                          ELSE hw.timer.tima

C4_IncrementOnFallingEdge == [][C4_Step]_vars

\* C4 witness: with no store made, TIMA went from 0xFE to 0xFF on the step
\* that took the counter to 0x400 under TAC = 5
C4_Witness ==
  /\ hist.op = "tick" /\ hist.writes = 0
  /\ hw.timer.tac = 5 /\ hw.timer.counter = 1024 /\ hw.timer.tima = 255

\* C5: a store to TIMA while an overflow is pending stores the value, and on
\* the four timer steps after it TIMA keeps that value and no timer interrupt
\* is requested; a store to TMA while an overflow is pending is the value the
\* next step loads into TIMA, and that step requests the timer interrupt.
C5_Step ==
  /\ (hist'.op = "write" /\ hist'.addr = TIMA /\ hw.timer.overflowed) =>
       hw'.timer.tima = hist'.value
  /\ (IsTick /\ LastWrite(TIMA) /\ hist.ret = 1 /\ hist.since < 4) =>
       /\ hw'.timer.tima = hist.value
       /\ ~TimerRequested(hw) /\ ~TimerRequested(hw')
  /\ (IsTick /\ LastWrite(TMA) /\ hist.ret = 1 /\ hist.since = 0) =>
       /\ hw'.timer.tima = hist.value
       /\ TimerRequested(hw')

C5_OverflowWindowWrites == [][C5_Step]_vars

\* C5 witness: four T-cycles after a store of 0x0F to TIMA with an overflow
\* pending, TIMA is 0x0F and no timer interrupt is requested
C5_Witness ==
  /\ LastWrite(TIMA) /\ hist.ret = 1 /\ hist.since = 4
  /\ hw.timer.tima = 15 /\ ~TimerRequested(hw)

\* C6: a store to DIV sets the internal counter to 0, DIV then reads 0; the
\* next timer step increments TIMA by one if the signal was 1 before the
\* store and not otherwise, and the three steps after that increment nothing
\* (TIMA changes there by the reload alone).
C6_Step ==
  /\ (hist'.op = "write" /\ hist'.addr = DIV) =>
       /\ hw'.timer.counter = 0
       /\ read_byte(hw', DIV) = 0
       /\ hw'.timer.tima = hw.timer.tima
  /\ (IsTick /\ LastWrite(DIV) /\ hist.since = 0) =>
       IF hw.timer.overflowed
       THEN hist.old = 0 /\ hw'.timer.tima = hw.timer.tma
       ELSE hw'.timer.tima = (hw.timer.tima + hist.old) % 256
  /\ (IsTick /\ LastWrite(DIV) /\ hist.since \in 1..3) =>
       \/ hw'.timer.tima = hw.timer.tima
       \/ hw.timer.overflowed /\ hw'.timer.tima = hw.timer.tma

C6_DivWrite == [][C6_Step]_vars

\* C6 witness: four T-cycles after the only store, one to DIV made while the
\* signal was 1, the counter is 4 and TIMA is 0xFF, one above its 0xFE
C6_Witness ==
  /\ LastWrite(DIV) /\ hist.writes = 1 /\ hist.old = 1 /\ hist.since = 4
  /\ hw.timer.counter = 4 /\ hw.timer.tima = 255

\* C7: a store to TAC keeps the low three bits of the value; the next timer
\* step increments TIMA by one exactly when the signal was 1 under the old
\* TAC at the store and is 0 under the new TAC at the end of that step.
C7_Step ==
  /\ (hist'.op = "write" /\ hist'.addr = TAC) =>
       /\ hw'.timer.tac = hist'.value % 8
       /\ hw'.timer.tima = hw.timer.tima
  /\ (IsTick /\ LastWrite(TAC) /\ hist.since = 0) =>
       IF hw.timer.overflowed
       THEN hist.old = 0 /\ hw'.timer.tima = hw.timer.tma
       ELSE hw'.timer.tima = IF hist.old = 1 /\ ~TimerSignal(hw'.timer)
                             THEN (hw.timer.tima + 1) % 256
                             ELSE hw.timer.tima

C7_TacWrite == [][C7_Step]_vars

\* C7 witness: the only store cleared the enable bit alone (TAC 5 -> 1) while
\* the selected bit 3 was 1, and the step after it took TIMA from 0xFE to 0xFF
C7_Witness ==
  /\ LastWrite(TAC) /\ hist.writes = 1 /\ hist.value = 1 /\ hist.old = 1
  /\ hist.since = 1 /\ hw.timer.counter = 1020 /\ hw.timer.tima = 255

----------------------------------------------------------------------------
(* SpecInt: the CPU under the frame scheduler running EI, DI, HALT and     *)
(* NOPs from ROM, with interrupts enabled and requested at the start and   *)
(* requested by a device while it runs, and with the stack pointer placed  *)
(* so that the pushes of interrupt servicing land on IE, on IF or in RAM.  *)
(* In hist, starts counts the device's requests.                           *)

\* T-cycles run in SpecInt, the device's requests, and the last T-cycle at
\* which it makes one
MaxIntTicks == 33
MaxRequests == 1
MaxRequestTick == 8

\* EI; HALT; EI, HALT; DI, HALT (the rest of the ROM is NOPs)
Programs == {<<251>>, <<118>>, <<251, 118>>, <<243, 118>>}
\* where the program starts: the PC pushed is 0x0010, 0x0102 or 0x1F04 when
\* the interrupt is taken after the NOP that follows EI
ProgramBases == {14, 256, 7938}
\* SP at the start: the pushes go to 0xFFFF (IE) and 0xFFFE, to 0x0000 and
\* 0xFFFF, to 0xFF0F (IF) and 0xFF0E, to 0xFF10 and 0xFF0F, or to high RAM
StackPointers == {0, 1, 65296, 65297, 65534}
EnabledValues == {0, 1, 5, 31, 224, 228}
RequestedValues == {0, 1, 4, 6, 24}
RequestKinds == {TimerInt, JoypadInt}

IntInit ==
  /\ \E code \in Programs, base \in ProgramBases, ie \in EnabledValues,
        rq \in RequestedValues :
       hw = [Hardware_new(CodeRom(base, code)) EXCEPT
               !.interrupts = set_requested(set_enabled(Interrupts_new, ie), rq)]
  /\ \E s \in StackPointers :
       cpu = [Cpu_with_register_defaults EXCEPT !.pc = hw.cartridge.rom.base, !.sp = s]
  /\ hist = NoHist

\* One T-cycle of the scheduler
IntTick ==
  /\ hist.n < MaxIntTicks
  /\ LET m == EmulatorTick([cpu |-> cpu, hw |-> hw])
     IN  /\ hw' = m.hw
         /\ cpu' = m.cpu
  /\ hist' = [hist EXCEPT !.op = "tick", !.n = hist.n + 1]

\* A device requests an interrupt (Interrupts::request_interrupt), between
\* two M-cycles
IntRequest(i) ==
  /\ cpu.t_cycles = 0
  /\ hist.starts < MaxRequests
  /\ hist.n <= MaxRequestTick
  /\ hw' = [hw EXCEPT !.interrupts = request_interrupt(hw.interrupts, i)]
  /\ hist' = [hist EXCEPT !.op = "request", !.value = i, !.starts = hist.starts + 1]
  /\ UNCHANGED cpu

IntNext ==
  \/ IntTick
  \/ \E i \in RequestKinds : IntRequest(i)

SpecInt == IntInit /\ [][IntNext]_vars

\* The pending set as the claims word it, from the two registers themselves:
\* the bit indices 0..4 set in both
PendingBits(h) ==
  {k \in 0..4 : /\ (h.interrupts.enabled \div (2 ^ k)) % 2 = 1
                /\ (h.interrupts.requested \div (2 ^ k)) % 2 = 1}
LowestBit(S) == CHOOSE k \in S : \A j \in S : k <= j
WithoutBit(v, k) == IF (v \div (2 ^ k)) % 2 = 1 THEN v - 2 ^ k ELSE v

\* The step in which servicing chooses its vector, and the hardware just
\* after the push of PC's low byte made in it
IsVectorChoice ==
  /\ IsTick /\ cpu.t_cycles = 3
  /\ cpu.state = "HandlingInterrupts" /\ cpu.cycle = "M4"
AfterPush == write_byte(hw, cpu.sp, cpu.pc % 256)

\* C2 as stated: the vector is 0x40 + 8k for k the lowest bit of the pending
\* set at the moment of the choice (after both pushes), 0x0000 when that set
\* is empty, and the request bit cleared is the chosen one.
C2_StatedStep ==
  IsVectorChoice =>
    IF PendingBits(AfterPush) = {}
    THEN /\ cpu'.pc = 0
         /\ hw'.interrupts.requested = AfterPush.interrupts.requested
    ELSE /\ cpu'.pc = 64 + 8 * LowestBit(PendingBits(AfterPush))
         /\ hw'.interrupts.requested =
              WithoutBit(AfterPush.interrupts.requested,
                         LowestBit(PendingBits(AfterPush)))

C2_VectorOfPendingAtChoice == [][C2_StatedStep]_vars

\* C2, amended: the vector is 0x40 + 8k for k the lowest bit that is pending
\* just before the push of PC's low byte or just after it, 0x0000 when
\* nothing is pending at either time; the request bit cleared is bit k, and
\* none on 0x0000.
C2_Step ==
  IsVectorChoice =>
    LET both == PendingBits(hw) \cup PendingBits(AfterPush)
    IN  IF both = {}
        THEN /\ cpu'.pc = 0
             /\ hw'.interrupts.requested = AfterPush.interrupts.requested
        ELSE /\ cpu'.pc = 64 + 8 * LowestBit(both)
             /\ hw'.interrupts.requested =
                  WithoutBit(AfterPush.interrupts.requested, LowestBit(both))

C2_VectorOfPendingAroundPush == [][C2_Step]_vars

\* C2 witness: the push of the low byte 0x02 of PC went to IE, which had been
\* 0x01 with VBlank requested; nothing was pending after it, and the CPU
\* jumped to 0x40 and cleared the VBlank request
C2_Witness ==
  /\ cpu.state = "HandlingInterrupts" /\ cpu.cycle = "M5"
  /\ cpu.sp = 65535 /\ cpu.pc = 64
  /\ hw.interrupts.enabled = 2 /\ hw.interrupts.requested = 0

\* C3: what the CPU treats as pending is (enabled & requested) & 0x1F: a
\* halted CPU wakes exactly when that set is not empty, HALT fails to halt
\* exactly when it is not empty and IME is off, and the end of an instruction
\* latches a dispatch exactly when it is not empty and IME is on.
ImeAtT4 == cpu.interrupt_master_enabled \/ cpu.last_instruction = 251
C3_Step ==
  (IsTick /\ cpu.t_cycles = 3) =>
    /\ cpu.state = "Halted" =>
         ((cpu'.state = "Halted" /\ ~cpu'.should_handle_interrupts)
            <=> PendingBits(hw) = {})
    /\ (cpu.state = "Running" /\ cpu.ir = 118) =>
         (cpu'.state = "Halted" <=> (ImeAtT4 \/ PendingBits(hw) = {}))
    /\ (cpu.state = "Running" /\ cpu.ir \in {0, 118, 251}) =>
         (cpu'.should_handle_interrupts <=> (ImeAtT4 /\ PendingBits(hw) # {}))

C3_PendingMaskedToFiveBits == [][C3_Step]_vars

\* C11: HALT executed with IME off and an interrupt pending does not halt the
\* CPU, and the fetch made by it loads the byte following HALT and leaves PC
\* where it is; the bug flag is clear afterwards, and every fetch made by
\* another instruction advances PC by one.
ExecutesAtT4 == IsTick /\ cpu.t_cycles = 3 /\ cpu.state = "Running"
C11_Step ==
  /\ (ExecutesAtT4 /\ cpu.ir = 118 /\ ~ImeAtT4 /\ PendingBits(hw) # {}) =>
       /\ cpu'.state = "Running"
       /\ cpu'.pc = cpu.pc
       /\ cpu'.ir = read_byte(hw, cpu.pc)
  /\ (ExecutesAtT4 /\ cpu.ir \in {0, 243, 251}) =>
       /\ cpu'.pc = wrapping_add16(cpu.pc, 1)
       /\ cpu'.ir = read_byte(hw, cpu.pc)
  /\ ~cpu'.halt_bug

C11_HaltBugOneFetch == [][C11_Step]_vars

\* C11 witness: HALT at 0x0100 was executed with IME off and the timer
\* interrupt pending; PC still points at the byte after it, which is loaded
C11_Witness ==
  /\ hw.cartridge.rom.base = 256 /\ hw.cartridge.rom.code = <<118>>
  /\ cpu.last_instruction = 118 /\ cpu.state = "Running"
  /\ cpu.pc = 257 /\ cpu.ir = 0 /\ ~cpu.interrupt_master_enabled
  /\ 2 \in PendingBits(hw)

\* The hardware after one T-cycle in which the CPU makes no access
HardwareAlone == EmulatorDevices(EmulatorTimer(EmulatorClock([cpu |-> cpu, hw |-> hw]))).hw
CpuIdle == cpu' = [cpu EXCEPT !.t_cycles = (cpu.t_cycles + 1) % 4]
HaltedAtT4 == IsTick /\ cpu.t_cycles = 3 /\ cpu.state = "Halted"

\* The steps of a halted CPU, for pending as a state predicate
HaltedSteps(pending) ==
  /\ (ExecutesAtT4 /\ cpu.ir = 118 /\ ~(~ImeAtT4 /\ pending)) =>
       cpu'.state = "Halted"
  /\ (IsTick /\ cpu.state = "Halted" /\ ~cpu.should_handle_interrupts
      /\ (cpu.t_cycles # 3 \/ ~pending)) =>
       (CpuIdle /\ hw' = HardwareAlone)
  /\ (HaltedAtT4 /\ pending /\ ~ImeAtT4) =>
       /\ cpu' = [cpu EXCEPT !.t_cycles = 0, !.state = "Running"]
       /\ hw' = HardwareAlone
  /\ (HaltedAtT4 /\ pending /\ ImeAtT4) =>
       /\ cpu'.should_handle_interrupts
       /\ cpu'.pc = cpu.pc /\ cpu'.sp = cpu.sp
       /\ hw' = HardwareAlone
  /\ (IsTick /\ cpu.state = "Halted" /\ cpu.should_handle_interrupts
      /\ cpu.t_cycles = 2) =>
       (cpu'.state = "HandlingInterrupts" /\ cpu'.cycle = "M1")

\* C22: HALT executed without the HALT-bug condition halts the CPU; halted,
\* it changes no register and leaves the hardware to the devices while no
\* interrupt is pending; at the first T4 with one pending it resumes running
\* with the request bit kept when IME is off, and latches the dispatch that
\* starts with the next M-cycle when IME is on.
C22_HaltedUntilPending == [][HaltedSteps(PendingBits(hw) # {})]_vars

\* The same steps with pending read as Hardware::has_pending_interrupts
HaltedUntilEnabledAndRequested == [][HaltedSteps(has_pending_interrupts(hw))]_vars

\* HALT at 0x0100 was executed with IME off, nothing requested and only bits
\* 5..7 of IE set: the CPU runs on, with PC still at the byte after HALT
HaltFailsWithoutPending ==
  /\ hw.cartridge.rom.base = 256 /\ hw.cartridge.rom.code = <<118>>
  /\ cpu.last_instruction = 118 /\ cpu.state = "Running" /\ cpu.pc = 257
  /\ hw.interrupts.enabled = 224 /\ hw.interrupts.requested = 0

\* halted with IME off, the CPU was woken by the joypad request and runs
HaltedWokenWithoutDispatch ==
  /\ hist.op = "tick" /\ hist.starts = 1
  /\ hw.cartridge.rom.code = <<118>> /\ cpu.state = "Running"
  /\ cpu.last_instruction = 118 /\ ~cpu.interrupt_master_enabled
  /\ hw.interrupts.enabled = 31 /\ hw.interrupts.requested = 16

\* halted with IME on, the CPU was woken by a request and services it
HaltedWokenWithDispatch ==
  /\ hw.cartridge.rom.code = <<251, 118>> /\ cpu.state = "HandlingInterrupts"
  /\ cpu.last_instruction = 118 /\ hist.starts = 1

----------------------------------------------------------------------------
(* SpecFrame: Emulator::step statement by statement.  A call checks its    *)
(* entry assertion and runs CYCLES_PER_FRAME / 4 iterations of four ticks, *)
(* each tick stepping the clock and then the components.  The CPU runs     *)
(* EI, HALT with the VBlank interrupt enabled, so that it is woken and     *)
(* services the interrupt when the PPU reaches line 144.  In hist, calls   *)
(* counts the calls entered, n the ticks completed in the current call,    *)
(* pos the statements done in the current tick, order the components       *)
(* stepped in the current (or, between ticks, the last) tick.              *)

CYCLES_PER_FRAME == 70224

\* calls made, and the ticks run of every call after the first
MaxFrameCalls == 2
MaxNextCallTicks == 8

FrameHist ==
  [op |-> "idle", n |-> 0, pos |-> 0, calls |-> 0, order |-> <<>>, running |-> FALSE]

\* The tick block of the loop body that tick n of a call runs (1..4)
FrameBlock(n) == (n % 4) + 1

\* A loop body that steps the CPU before the timer in every tick
FrameComponent_cpu_first(block, pos) ==
  CASE pos = 0 -> "clock"
    [] pos = 1 -> "cpu"
    [] pos = 2 -> "timer"
    [] pos = 3 -> "ppu"
    [] pos = 4 -> "apu"
    [] pos = 5 -> "dma"

\* The statement at position pos of the tick block: what it steps
FrameComponent(block, pos) ==
  CASE pos = 0 -> "clock"
    [] pos = 1 -> IF block = 3 THEN "timer" ELSE "cpu"
    [] pos = 2 -> IF block = 3 THEN "cpu" ELSE "timer"
    [] pos = 3 -> "ppu"
    [] pos = 4 -> "apu"
    [] pos = 5 -> "dma"

\* for _ in 0..(CYCLES_PER_FRAME / 4), four ticks each
FrameLoopTicks == (CYCLES_PER_FRAME \div 4) * 4

FrameInit ==
  /\ hw = [Hardware_new(CodeRom(256, <<251, 118>>)) EXCEPT
             !.interrupts = set_enabled(Interrupts_new, VBlank)]
  /\ cpu = Cpu_with_register_defaults
  /\ hist = FrameHist

\* The call: debug_assert_eq!(t_cycle(), T4), then the loop
FrameEnter ==
  /\ ~hist.running /\ hist.op # "panic" /\ hist.calls < MaxFrameCalls
  /\ hist' = IF t_cycle(hw.sys_clock) = "T4"
             THEN [hist EXCEPT !.op = "enter", !.n = 0, !.pos = 0, !.order = <<>>,
                               !.calls = hist.calls + 1, !.running = TRUE]
             ELSE [hist EXCEPT !.op = "panic"]
  /\ UNCHANGED <<hw, cpu>>

\* The next statement of the loop body steps component name
FrameAt(name) ==
  /\ hist.running
  /\ hist.calls = 1 \/ hist.n < MaxNextCallTicks
  /\ FrameComponent(FrameBlock(hist.n), hist.pos) = name
  /\ hist' = [hist EXCEPT !.op = name,
                          !.order = IF hist.pos = 0 THEN <<name>>
                                    ELSE Append(hist.order, name),
                          !.pos = (hist.pos + 1) % 6,
                          !.n = IF hist.pos = 5 THEN hist.n + 1 ELSE hist.n,
                          !.running = ~(hist.pos = 5 /\ hist.n + 1 = FrameLoopTicks)]

FrameClock == FrameAt("clock") /\ hw' = step_sys_clock(hw) /\ UNCHANGED cpu

FrameCpu ==
  /\ FrameAt("cpu")
  /\ LET m == Cpu_step([cpu |-> cpu, hw |-> hw])
     IN  hw' = m.hw /\ cpu' = m.cpu

FrameTimer == FrameAt("timer") /\ hw' = step_timer(hw, 1) /\ UNCHANGED cpu

FramePpu == FrameAt("ppu") /\ hw' = step_ppu(hw) /\ UNCHANGED cpu

FrameApu == FrameAt("apu") /\ hw' = step_apu(hw) /\ UNCHANGED cpu

FrameDma == FrameAt("dma") /\ hw' = step_dma_transfer(hw) /\ UNCHANGED cpu

FrameNext ==
  \/ FrameEnter
  \/ FrameClock
  \/ FrameCpu
  \/ FrameTimer
  \/ FramePpu
  \/ FrameApu
  \/ FrameDma

SpecFrame == FrameInit /\ [][FrameNext]_vars

\* C12: a call of the frame step runs 17 556 M-cycles of four ticks, 70 224
\* T-cycles; in every tick the clock is advanced first and then the
\* components are stepped once each, CPU, timer, PPU, APU, DMA on T1, T2, T4
\* and timer, CPU, PPU, APU, DMA on T3; the phase is T4 when a call starts
\* and when it ends, and the entry assertion never fails.
C12_Order ==
  IF t_cycle(hw.sys_clock) = "T3"
  THEN <<"clock", "timer", "cpu", "ppu", "apu", "dma">>
  ELSE <<"clock", "cpu", "timer", "ppu", "apu", "dma">>
C12_FrameSchedule ==
  /\ hist.op # "panic"
  /\ hist.order = SubSeq(C12_Order, 1, Len(hist.order))
  /\ Len(hist.order) = (IF hist.pos = 0 /\ hist.op # "enter" /\ hist.calls > 0
                        THEN 6 ELSE hist.pos)
  /\ (hist.pos = 0 /\ hist.n % 4 = 0) => t_cycle(hw.sys_clock) = "T4"
  /\ hist.op = "enter" => t_cycle(hw.sys_clock) = "T4"
  /\ (hist.calls > 0 /\ ~hist.running) =>
       /\ hist.n = 70224
       /\ hist.n = 17556 * 4
       /\ t_cycle(hw.sys_clock) = "T4"

\* C12 witness: the third tick of a call is done, phase T3, in which the
\* timer was stepped before the CPU (whose own count of the T-cycle agrees)
C12_Witness ==
  /\ hist.calls = 1 /\ hist.running /\ hist.n = 3 /\ hist.pos = 0
  /\ hist.order = <<"clock", "timer", "cpu", "ppu", "apu", "dma">>
  /\ t_cycle(hw.sys_clock) = "T3" /\ cpu.t_cycles = 3

\* The first call has returned, after the CPU was woken by the VBlank
\* interrupt of line 144 and serviced it (pushing PC)
FrameReturned ==
  /\ hist.calls = 1 /\ ~hist.running /\ hist.op = "dma"
  /\ hist.n = 70224
  /\ cpu.sp = 65532 /\ hw.interrupts.requested = 0

----------------------------------------------------------------------------
(* SpecStack: the CPU under the frame scheduler running PUSH rp, POP rp    *)
(* (or POP AF alone) from ROM, no interrupt enabled, with the stack        *)
(* pointer in work RAM, echo RAM and high RAM, at their edges, and in      *)
(* places that are no RAM.  hist.cpu0 is the CPU at the start.             *)

\* T-cycles run in SpecStack
MaxStackTicks == 32

\* PUSH BC, POP BC; ... DE; ... HL; ... AF; POP AF
StackPrograms == {<<197, 193>>, <<213, 209>>, <<229, 225>>, <<245, 241>>, <<241>>}
StackHighs == {18, 255}
StackLows == {52, 143}
StackFlags == {0, 176, 240}
\* 0xC002, 0xE000, 0xFE00, 0xFF82, 0xFFFF: both bytes pushed land in RAM;
\* 0xC001, 0xFF81, 0x0000, 0x4010: one or both land in cartridge RAM that is
\* not there, in the I/O page, in IE, in ROM
StackSps == {49154, 57344, 65024, 65410, 65535, 49153, 65409, 0, 16400}

StackInit ==
  /\ \E code \in StackPrograms : hw = Hardware_new(CodeRom(256, code))
  /\ \E hi \in StackHighs, lo \in StackLows, f \in StackFlags, s \in StackSps :
       cpu = [Cpu_with_register_defaults EXCEPT
                !.a = hi, !.b = hi, !.d = hi, !.h = hi,
                !.c = lo, !.e = lo, !.l = lo, !.flags = f, !.sp = s]
  /\ hist = [op |-> "none", n |-> 0, cpu0 |-> cpu]

\* One T-cycle of the scheduler
StackTick ==
  /\ hist.n < MaxStackTicks
  /\ LET m == EmulatorTick([cpu |-> cpu, hw |-> hw])
     IN  /\ hw' = m.hw
         /\ cpu' = m.cpu
  /\ hist' = [hist EXCEPT !.op = "tick", !.n = hist.n + 1]

StackNext == StackTick

SpecStack == StackInit /\ [][StackNext]_vars

\* Work RAM, echo RAM and high RAM
IsRam(a) == a \in (49152..65023) \cup (65408..65534)
\* The register pair an opcode of PUSH or POP names: its high and low byte
PairHigh(c, opcode) ==
  CASE opcode \in {193, 197} -> c.b
    [] opcode \in {209, 213} -> c.d
    [] opcode \in {225, 229} -> c.h
    [] opcode \in {241, 245} -> c.a
PairLow(c, opcode) ==
  CASE opcode \in {193, 197} -> c.c
    [] opcode \in {209, 213} -> c.e
    [] opcode \in {225, 229} -> c.l
    [] opcode \in {241, 245} -> c.flags
StackCode == hw.cartridge.rom.code
StackHighAddr == (hist.cpu0.sp + 65535) % 65536
StackLowAddr == (hist.cpu0.sp + 65534) % 65536
PushAt(cycle) ==
  ExecutesAtT4 /\ cpu.ir \in {197, 213, 229, 245} /\ cpu.cycle = cycle
PopAt(cycle) ==
  ExecutesAtT4 /\ cpu.ir \in {193, 209, 225, 241} /\ cpu.cycle = cycle

\* C13: PUSH rp writes the high byte at SP-1, then the low byte at SP-2; POP
\* rp reads the low byte, then the high byte, and POP AF keeps only the high
\* nibble of the low byte in F; PUSH rp, POP rp with both stack bytes in
\* writable RAM leaves rp and SP as they were; the low nibble of F is always 0.
C13_Step ==
  /\ PushAt("M3") =>
       /\ cpu.sp = StackHighAddr
       /\ IsRam(StackHighAddr) =>
            read_byte(hw', StackHighAddr) = PairHigh(hist.cpu0, cpu.ir)
       /\ IsRam(StackLowAddr) =>
            read_byte(hw', StackLowAddr) = read_byte(hw, StackLowAddr)
  /\ PushAt("M4") =>
       /\ cpu.sp = StackLowAddr /\ cpu'.sp = StackLowAddr
       /\ IsRam(StackLowAddr) =>
            read_byte(hw', StackLowAddr) = PairLow(hist.cpu0, cpu.ir)
       /\ IsRam(StackHighAddr) =>
            read_byte(hw', StackHighAddr) = PairHigh(hist.cpu0, cpu.ir)
  /\ PopAt("M2") =>
       /\ cpu'.data_buffer[1] = read_byte(hw, cpu.sp)
       /\ cpu'.sp = wrapping_add16(cpu.sp, 1)
  /\ PopAt("M3") =>
       /\ PairHigh(cpu', cpu.ir) = read_byte(hw, cpu.sp)
       /\ PairLow(cpu', cpu.ir) =
            (IF cpu.ir = 241 THEN (cpu.data_buffer[1] \div 16) * 16
             ELSE cpu.data_buffer[1])
       /\ cpu'.sp = wrapping_add16(cpu.sp, 1)
       /\ (Len(StackCode) = 2 /\ IsRam(StackHighAddr) /\ IsRam(StackLowAddr)) =>
            /\ PairHigh(cpu', cpu.ir) = PairHigh(hist.cpu0, cpu.ir)
            /\ PairLow(cpu', cpu.ir) = PairLow(hist.cpu0, cpu.ir)
            /\ cpu'.sp = hist.cpu0.sp
  /\ cpu'.flags % 16 = 0

C13_PushPopRestores == [][C13_Step]_vars

\* C13 witness: PUSH AF, POP AF is done with the stack in high RAM: A, F and
\* SP are as before and the two bytes are on the stack
C13_Witness ==
  /\ StackCode = <<245, 241>> /\ cpu.last_instruction = 241
  /\ hist.cpu0.sp = 65410 /\ hist.cpu0.a = 255 /\ hist.cpu0.flags = 240
  /\ cpu.sp = 65410 /\ cpu.a = 255 /\ cpu.flags = 240
  /\ read_byte(hw, 65409) = 255 /\ read_byte(hw, 65408) = 240

\* A POP AF that read a byte with a low nibble that is not 0 (from ROM)
StackPopMasked ==
  /\ StackCode = <<241>> /\ cpu.last_instruction = 241
  /\ cpu.data_buffer[1] % 16 # 0 /\ cpu.flags = (cpu.data_buffer[1] \div 16) * 16

----------------------------------------------------------------------------
(* SpecBcd: the CPU under the frame scheduler running ADD A, b; DAA and    *)
(* SUB b; DAA from ROM, for all packed-BCD bytes in A and b.               *)
(* hist.cpu0 is the CPU at the start.                                      *)

\* T-cycles run in SpecBcd
MaxBcdTicks == 12

\* The bytes with both nibbles at most 9
BcdBytes == {16 * hi + lo : hi \in 0..9, lo \in 0..9}

BcdInit ==
  /\ \E op \in {198, 214}, b \in BcdBytes : hw = Hardware_new(CodeRom(256, <<op, b, 39>>))
  /\ \E a \in BcdBytes : cpu = [Cpu_with_register_defaults EXCEPT !.a = a, !.flags = 0]
  /\ hist = [op |-> "none", n |-> 0, cpu0 |-> cpu]

\* One T-cycle of the scheduler
BcdTick ==
  /\ hist.n < MaxBcdTicks
  /\ LET m == EmulatorTick([cpu |-> cpu, hw |-> hw])
     IN  /\ hw' = m.hw
         /\ cpu' = m.cpu
  /\ hist' = [hist EXCEPT !.op = "tick", !.n = hist.n + 1]

BcdNext == BcdTick

SpecBcd == BcdInit /\ [][BcdNext]_vars

\* Packed BCD of a number below 100, and the number a packed-BCD byte encodes
ToBcd(n) == 16 * (n \div 10) + (n % 10)
FromBcd(x) == 10 * (x \div 16) + (x % 16)
HasFlag(c, bit) == (c.flags \div bit) % 2 = 1
BcdOp == hw.cartridge.rom.code[1]
BcdA == FromBcd(hist.cpu0.a)
BcdB == FromBcd(hw.cartridge.rom.code[2])

\* C14: for packed-BCD a and b, ADD A, b then DAA gives the packed BCD of
\* (a + b) mod 100 with carry iff a + b >= 100, SUB b then DAA the packed BCD
\* of (a - b) mod 100 with carry iff a < b; DAA sets Z iff the result is 0,
\* clears H and leaves N; 0x19 + 0x28 is 0x41 with H after ADD, 0x47 with Z,
\* H, C clear after DAA.
C14_Step ==
  /\ (ExecutesAtT4 /\ cpu.ir = 39) =>
       /\ BcdOp = 198 =>
            /\ cpu'.a = ToBcd((BcdA + BcdB) % 100)
            /\ HasFlag(cpu', 16) <=> (BcdA + BcdB >= 100)
       /\ BcdOp = 214 =>
            /\ cpu'.a = ToBcd((BcdA - BcdB + 100) % 100)
            /\ HasFlag(cpu', 16) <=> (BcdA < BcdB)
       /\ HasFlag(cpu', 128) <=> (cpu'.a = 0)
       /\ ~HasFlag(cpu', 32)
       /\ HasFlag(cpu', 64) <=> HasFlag(cpu, 64)
  /\ (ExecutesAtT4 /\ cpu.ir = 198 /\ cpu.cycle = "M2"
        /\ hist.cpu0.a = 25 /\ hw.cartridge.rom.code[2] = 40) =>
       /\ cpu'.a = 65 /\ HasFlag(cpu', 32)
  /\ (ExecutesAtT4 /\ cpu.ir = 39
        /\ BcdOp = 198 /\ hist.cpu0.a = 25 /\ hw.cartridge.rom.code[2] = 40) =>
       /\ cpu'.a = 71 /\ cpu'.flags = 0

C14_DaaAfterAddSub == [][C14_Step]_vars

\* C14 witness: 0x75 + 0x48 was adjusted to 0x23 with carry (123)
C14_Witness ==
  /\ BcdOp = 198 /\ hist.cpu0.a = 117 /\ hw.cartridge.rom.code[2] = 72
  /\ cpu.last_instruction = 39 /\ cpu.a = 35 /\ cpu.flags = 16

\* 0x23 - 0x48 was adjusted to 0x75 with carry (23 - 48 = -25 = 75 - 100)
BcdSubAdjusted ==
  /\ BcdOp = 214 /\ hist.cpu0.a = 35 /\ hw.cartridge.rom.code[2] = 72
  /\ cpu.last_instruction = 39 /\ cpu.a = 117 /\ cpu.flags = 80

----------------------------------------------------------------------------
(* Joypad: the host updates buttons (Hardware::update_button), the CPU     *)
(* selects the button groups through 0xFF00 and acknowledges the joypad    *)
(* interrupt.                                                              *)

\* Button: A, B, Select, Start, Right, Left, Up, Down (joypad.rs, enum Button)
Buttons == {1, 2, 4, 8, 16, 32, 64, 128}

ButtonStates == {"Pressed", "Released"}

\* the values a program writes to 0xFF00: both groups, d-pad, actions, none
GroupWrites == {0, 32, 16, 48}

MaxJoypadSteps == 5

JoypadInit ==
  /\ hw = Hardware_new(NopRom)
  /\ cpu = Cpu_new
  /\ hist = [op |-> "init", n |-> 0, button |-> 0, button_state |-> "Released"]

JoypadUpdate ==
  \E button \in Buttons, button_state \in ButtonStates :
    /\ hw' = update_button(hw, button, button_state)
    /\ hist' = [op |-> "update", n |-> hist.n + 1,
                button |-> button, button_state |-> button_state]
    /\ UNCHANGED cpu

JoypadSelect ==
  \E value \in GroupWrites :
    /\ hw' = write_byte(hw, 65280, value)
    /\ hist' = [hist EXCEPT !.op = "select", !.n = hist.n + 1]
    /\ UNCHANGED cpu

JoypadAcknowledge ==
  /\ is_flag_set(hw.interrupts.requested, JoypadInt)
  /\ hw' = clear_interrupt(hw, JoypadInt)
  /\ hist' = [hist EXCEPT !.op = "acknowledge", !.n = hist.n + 1]
  /\ UNCHANGED cpu

JoypadNext ==
  /\ hist.n < MaxJoypadSteps
  /\ (JoypadUpdate \/ JoypadSelect \/ JoypadAcknowledge)

SpecJoypad == JoypadInit /\ [][JoypadNext]_vars

\* the joypad register as the CPU reads it, and its low nibble
JoypadRegister(h) == read_byte(h, 65280)

SelectedNibble(h) == JoypadRegister(h) % 16

JoypadRequested(h) == is_flag_set(h.interrupts.requested, JoypadInt)

\* some bit of the low nibble is 1 in h and 0 in h2
NibbleFalls(h, h2) ==
  \E k \in 0..3 : /\ (SelectedNibble(h) \div 2^k) % 2 = 1
                  /\ (SelectedNibble(h2) \div 2^k) % 2 = 0

\* the group of a button is selected when its select bit reads 0
GroupSelected(h, button) ==
  IF button < 16 THEN (JoypadRegister(h) \div 32) % 2 = 0
                 ELSE (JoypadRegister(h) \div 16) % 2 = 0

\* the nibble bit of a button
ButtonBit(button) == IF button < 16 THEN button ELSE button \div 16

ReadsReleased(h, button) == (SelectedNibble(h) \div ButtonBit(button)) % 2 = 1

C15_Step ==
  hist'.op = "update" =>
    /\ JoypadRequested(hw') <=> (JoypadRequested(hw) \/ NibbleFalls(hw, hw'))
    /\ hw'.interrupts.requested \in
         {hw.interrupts.requested, add_flag(hw.interrupts.requested, JoypadInt)}
    /\ (/\ hist'.button_state = "Pressed"
        /\ GroupSelected(hw, hist'.button)
        /\ ReadsReleased(hw, hist'.button)) => JoypadRequested(hw')
    /\ (\/ hist'.button_state = "Released"
        \/ ~GroupSelected(hw, hist'.button)
        \/ ~ReadsReleased(hw, hist'.button))
         => (JoypadRequested(hw') <=> JoypadRequested(hw))

\* C15: a button update requests the joypad interrupt exactly when a bit of
\* the selected low nibble of the joypad register goes from 1 to 0: pressing
\* a button of a selected group that reads released requests it; a release,
\* a press of a button that already reads pressed, and a press of a button
\* whose group is not selected leave the request bit as it was.
C15_JoypadFallingEdge == [][C15_Step]_vars

\* the d-pad is selected and Up, released before, has just been pressed
C15_Witness ==
  /\ hist.op = "update" /\ hist.button = 64 /\ hist.button_state = "Pressed"
  /\ hw.joypad.button_group = 32
  /\ hw.joypad.pressed = 255 - 64
  /\ JoypadRequested(hw)

\* both groups selected, Right held: pressing A changes no nibble bit
JoypadSharedLine ==
  /\ hist.op = "update" /\ hist.button = 1 /\ hist.button_state = "Pressed"
  /\ hw.joypad.button_group = 0
  /\ hw.joypad.pressed = 255 - 16 - 1
  /\ ~JoypadRequested(hw)

----------------------------------------------------------------------------
(* MBC1 cartridge behind the bus: control writes to 0x0000..0x7FFF and     *)
(* reads of both ROM windows.                                              *)

\* an image whose cartridge-type byte (0x147) is 1
Mbc1Rom(len) == [len |-> len, base |-> 327, code |-> <<1>>, data |-> 16384]

\* 2, 8 and 128 banks of 16 KiB
MbcRomLens == {32768, 131072, 2097152}

\* both ends of the four control regions
MbcWriteAddresses == {0, 8191, 8192, 16383, 16384, 24575, 24576, 32767}

MbcWriteValues == {0, 1, 2, 3, 10, 31, 32, 64, 96, 224, 255}

MbcReadAddresses == {0, 327, 16383, 16384, 16385, 32767}

MaxMbcSteps == 4

MbcInit ==
  /\ \E len \in MbcRomLens : hw = Hardware_new(Mbc1Rom(len))
  /\ cpu = Cpu_new
  /\ hist = [op |-> "init", n |-> 0, address |-> 0, value |-> 0]

MbcWrite ==
  \E address \in MbcWriteAddresses, value \in MbcWriteValues :
    /\ hw' = write_byte(hw, address, value)
    /\ hist' = [op |-> "write", n |-> hist.n + 1, address |-> address, value |-> value]
    /\ UNCHANGED cpu

MbcRead ==
  \E address \in MbcReadAddresses :
    /\ hist' = [op |-> "read", n |-> hist.n + 1, address |-> address,
                value |-> read_byte(hw, address)]
    /\ UNCHANGED <<hw, cpu>>

MbcNext ==
  /\ hist.n < MaxMbcSteps
  /\ (MbcWrite \/ MbcRead)

SpecMbc == MbcInit /\ [][MbcNext]_vars

\* the selected ROM bank: two upper bits and five low bits
RomBank == hw.cartridge.rom_bank

RomBankLow(bank) == bank % 32

RomBankHigh(bank) == (bank \div 32) % 4

C16_LowBitsNonZero == RomBankLow(RomBank) # 0 /\ RomBank \in 1..127

\* the image byte at index i, 0xFF past its end
RomImageByte(i) ==
  IF i < hw.cartridge.rom.len THEN rom_get(hw.cartridge.rom, i) ELSE 255

C16_Step ==
  /\ (hist'.op = "write" /\ hist'.address \in 8192..16383) =>
       /\ RomBankHigh(RomBank') = RomBankHigh(RomBank)
       /\ RomBankLow(RomBank') = IF hist'.value % 32 = 0 THEN 1 ELSE hist'.value % 32
  /\ (hist'.op = "read" /\ hist'.address < 16384) =>
       hist'.value = RomImageByte(hist'.address)
  /\ (hist'.op = "read" /\ hist'.address \in 16384..32767) =>
       hist'.value = RomImageByte(RomBank * 16384 + (hist'.address % 16384))

MbcPastEnd ==
  /\ hist.op = "read" /\ hist.address = 16384
  /\ RomBank = 2 /\ hw.cartridge.rom.len = 32768 /\ hist.value = 255

----------------------------------------------------------------------------
(* LCD control: CPU writes to LCDC, LY and LYC while the PPU is stepped.   *)
(* Hardware::step_ppu steps the PPU on every T-cycle, whatever LCDC holds. *)

MaxLcdDots == 3

MaxLcdWrites == 3

\* LCDC, LY, LYC
LcdWriteAddresses == {65344, 65348, 65349}

LcdWriteValues == {0, 128, 143}

LcdInit ==
  /\ \E pt \in PpuPoints \cup {<<OamScan, 0, 0>>} :
       hw = [Hardware_new(NopRom) EXCEPT !.ppu.stat = pt[1],
                                         !.ppu.counter = pt[2],
                                         !.ppu.ly = pt[3]]
  /\ cpu = Cpu_new
  /\ hist = [op |-> "init", dots |-> 0, writes |-> 0, address |-> 0, value |-> 0]

LcdWrite ==
  \E address \in LcdWriteAddresses, value \in LcdWriteValues :
    /\ hist.writes < MaxLcdWrites
    /\ hw' = write_byte(hw, address, value)
    /\ hist' = [hist EXCEPT !.op = "write", !.writes = hist.writes + 1,
                            !.address = address, !.value = value]
    /\ UNCHANGED cpu

LcdPpuStep ==
  /\ hist.dots < MaxLcdDots
  /\ hw' = step_ppu(hw)
  /\ hist' = [hist EXCEPT !.op = "ppu", !.dots = hist.dots + 1]
  /\ UNCHANGED cpu

LcdNext == LcdWrite \/ LcdPpuStep

SpecLcd == LcdInit /\ [][LcdNext]_vars

CoincidenceSet(h) == (h.ppu.stat \div 4) % 2 = 1

LcdcWrite == hist'.op = "write" /\ hist'.address = 65344

TurnsOff == LcdcWrite /\ LcdOn(hw) /\ hist'.value < 128

TurnsOn == LcdcWrite /\ ~LcdOn(hw) /\ hist'.value >= 128

C17_OffStep ==
  TurnsOff => hw'.ppu.ly = 0 /\ hw'.ppu.wly = 0 /\ ~CoincidenceSet(hw')

C17_OnStep ==
  TurnsOn => ModeBits(hw') = OamScan /\ hw'.ppu.counter = 0

C17_LyStep ==
  (hist'.op = "write" /\ hist'.address = 65348) => hw'.ppu.ly = hw.ppu.ly

\* C17: a write to LCDC that clears bit 7 while it was set resets LY and
\* WLY to 0 and clears the coincidence flag; a write that sets bit 7 while
\* it was clear leaves the PPU in OAM scan with its dot counter at 0; a CPU
\* write to LY leaves LY as it was.
C17_LcdSwitch == [][C17_OffStep /\ C17_OnStep /\ C17_LyStep]_vars

\* the two parts of C17 that the code keeps
LcdOffAndLy == [][C17_OffStep /\ C17_LyStep]_vars

\* the LCD was switched off on line 143 with the coincidence flag set
LcdSwitchedOff ==
  /\ hist.op = "write" /\ hist.address = 65344 /\ hist.value = 0
  /\ hist.writes = 3
  /\ hw.ppu.lyc = 143 /\ hw.ppu.ly = 0 /\ ~CoincidenceSet(hw)

\* the LCD was switched on while the PPU was in pixel transfer
LcdOnInPixelTransfer ==
  /\ hist.op = "write" /\ hist.address = 65344 /\ hist.value = 128
  /\ LcdOn(hw) /\ ModeBits(hw) = PixelTransfer

----------------------------------------------------------------------------
(* Sprite rendering: a line of sprites in OAM is rendered by the PPU step  *)
(* that ends pixel transfer.                                               *)

\* X bytes of the sprites in OAM: 4 is four columns left of the screen edge
SpriteXs == {4, 8, 10}

\* tile 1 is colour 1 throughout, tile 2 colour 2, tile 3 colour 3 on every
\* other column and transparent between
SpriteTileIndices == {1, 2, 3}

SpriteTileData ==
  [i \in {16, 33, 48, 49} |-> IF i = 16 \/ i = 33 THEN 255 ELSE 170]

SpriteSlots == 0..2

MaxSpriteDots == 2

\* OAM holding the sprites of the slots, every other byte 0
SpriteOam(xs, tiles, attributes, raw_y) ==
  LET byte(i) == CASE i % 4 = 0 -> IF i \div 4 = 2 THEN raw_y ELSE 16
                   [] i % 4 = 1 -> xs[i \div 4]
                   [] i % 4 = 2 -> tiles[i \div 4]
                   [] i % 4 = 3 -> IF i \div 4 = 0 THEN attributes ELSE 0
  IN  [i \in {j \in 0..11 : byte(j) # 0} |-> byte(i)]

SpriteInit ==
  /\ \E xs \in [SpriteSlots -> SpriteXs], tiles \in [SpriteSlots -> SpriteTileIndices],
        attributes \in {0, Priority}, raw_y \in {0, 16} :
       hw = [Hardware_new(NopRom) EXCEPT
               !.ppu.lcdc = LcdDisplay + SpriteDisplay,
               !.ppu.stat = PixelTransfer,
               !.ppu.counter = 171,
               !.ppu.obp0 = 228,
               !.ppu.memory = SpriteTileData,
               !.ppu.oam = SpriteOam(xs, tiles, attributes, raw_y)]
  /\ cpu = Cpu_new
  /\ hist = [op |-> "init", dots |-> 0]

SpritePpuStep ==
  /\ hist.dots < MaxSpriteDots
  /\ hw' = step_ppu(hw)
  /\ hist' = [op |-> "ppu", dots |-> hist.dots + 1]
  /\ UNCHANGED cpu

SpriteNext == SpritePpuStep

SpecSprite == SpriteInit /\ [][SpriteNext]_vars

\* the sprite of an OAM slot: its bytes, its X on the screen, whether it is
\* on the line, and its colour (0: transparent) at a column
SlotByte(slot, k) == ArrayGet(hw.ppu.oam, 4 * slot + k)

SlotX(slot) == SlotByte(slot, 1) - 8

SlotAccepted(slot) ==
  /\ SlotByte(slot, 0) \in 1..159
  /\ hw.ppu.ly - (SlotByte(slot, 0) - 16) \in 0..7

SlotColor(slot, c) ==
  IF SlotAccepted(slot) /\ c - SlotX(slot) \in 0..7
  THEN get_sprite_pixel(hw.ppu, SlotByte(slot, 2),
                        hw.ppu.ly - (SlotByte(slot, 0) - 16), c - SlotX(slot), FALSE)
  ELSE 0

\* the sprites with a non-transparent pixel at column c
OpaqueAt(c) == {slot \in SpriteSlots : SlotColor(slot, c) # 0}

\* smaller X first, lower OAM index on equal X
SlotWins(a, b) == SlotX(a) < SlotX(b) \/ (SlotX(a) = SlotX(b) /\ a <= b)

Winner(c) == CHOOSE a \in OpaqueAt(c) : \A b \in OpaqueAt(c) : SlotWins(a, b)

BufferPixel(line, c) ==
  IF line \in DOMAIN hw.ppu.buffer THEN hw.ppu.buffer[line][c] ELSE 0

LineRendered == hist.op = "ppu" /\ hist.dots = 1

Overlap(c) ==
  /\ Cardinality(OpaqueAt(c)) >= 2
  /\ \A slot \in OpaqueAt(c) : ~is_flag_set(SlotByte(slot, 3), Priority)

\* C18: on a rendered line, at a column where two or more accepted sprites
\* without the behind-background attribute have a non-transparent pixel, the
\* frame buffer holds the pixel of the sprite with the smallest X, and among
\* equal X that of the lowest OAM index.
C18_SpriteOrder ==
  LineRendered =>
    \A c \in Columns :
      Overlap(c) => BufferPixel(hw.ppu.ly, c) = palette_color(hw.ppu.obp0, SlotColor(Winner(c), c))

\* the same order among sprites that start on the screen (X byte of 8 or more)
SpriteOrderOnScreen ==
  LineRendered =>
    \A c \in Columns :
      (Overlap(c) /\ \A slot \in OpaqueAt(c) : SlotX(slot) >= 0)
        => BufferPixel(hw.ppu.ly, c) = palette_color(hw.ppu.obp0, SlotColor(Winner(c), c))

\* slot 0 (X byte 8, colour 1) and slot 1 (X byte 8, colour 2) overlap: the
\* line shows slot 0
SpriteTieShown ==
  /\ LineRendered
  /\ SlotByte(0, 1) = 8 /\ SlotByte(1, 1) = 8 /\ SlotByte(2, 1) = 10
  /\ SlotByte(0, 2) = 1 /\ SlotByte(1, 2) = 2 /\ SlotByte(0, 3) = 0
  /\ BufferPixel(0, 0) = 1 /\ BufferPixel(0, 7) = 1 /\ BufferPixel(0, 8) # 0

----------------------------------------------------------------------------
(* Interrupt servicing and the master enable under the frame scheduler:    *)
(* programs around EI, HALT, the 0xCB prefix and RETI, with the timer or   *)
(* the joypad interrupt requested at the start or between two M-cycles.    *)

MaxServiceTicks == 64

MaxServiceRequests == 1

MaxServiceRequestTick == 16

\* <<base, code>>: EI NOP; EI EI; EI NOP EI; SET 7,E; EI HALT; HALT EI;
\* and, placed so that the byte at the timer vector 0x50 is the third one,
\* EI NOP RETI and EI NOP EI RETI; EI DI; EI SET 1,A
ServicePrograms ==
  {<<256, <<251, 0>>>>, <<256, <<251, 251>>>>, <<256, <<251, 0, 251>>>>,
   <<256, <<251, 243>>>>, <<256, <<251, 203, 207>>>>,
   <<256, <<203, 251>>>>, <<256, <<251, 118>>>>, <<256, <<118, 251>>>>,
   <<78, <<251, 0, 217>>>>, <<78, <<251, 0, 251, 217>>>>}

\* SP in high RAM and in work RAM
ServiceStacks == {65534, 53248}

ServiceEnabled == {4, 20}

ServiceRequested == {0, 4, 20}

ServiceInit ==
  /\ \E pr \in ServicePrograms, ie \in ServiceEnabled, rq \in ServiceRequested :
       hw = [Hardware_new(CodeRom(pr[1], pr[2])) EXCEPT
               !.interrupts = set_requested(set_enabled(Interrupts_new, ie), rq)]
  /\ \E s \in ServiceStacks :
       cpu = [Cpu_with_register_defaults EXCEPT !.pc = hw.cartridge.rom.base, !.sp = s]
  /\ hist = [op |-> "init", n |-> 0, starts |-> 0, m |-> 0, sp0 |-> 0,
             executed |-> "none"]

\* what the CPU does on the T4 that the tick from this state is
ExecutedAtT4 ==
  CASE cpu.state = "HandlingInterrupts" -> "service"
    [] cpu.state = "Running" /\ ~cpu.saw_prefix_opcode /\ cpu.ir = 251 -> "EI"
    [] cpu.state = "Running" /\ ~cpu.saw_prefix_opcode /\ cpu.ir = 217
       /\ cpu.cycle = "M4" -> "RETI"
    [] OTHER -> "other"

\* the count of servicing M-cycles and SP at the start of the servicing
ServiceHist(c2) ==
  IF cpu.state # "HandlingInterrupts" /\ c2.state = "HandlingInterrupts"
  THEN [hist EXCEPT !.m = 0, !.sp0 = cpu.sp]
  ELSE IF cpu.t_cycles = 3
       THEN [hist EXCEPT !.m = IF cpu.state = "HandlingInterrupts" THEN hist.m + 1 ELSE 0,
                         !.executed = ExecutedAtT4]
       ELSE hist

\* One T-cycle of the scheduler
ServiceTick ==
  /\ hist.n < MaxServiceTicks
  /\ LET m == EmulatorTick([cpu |-> cpu, hw |-> hw])
     IN  /\ hw' = m.hw
         /\ cpu' = m.cpu
  /\ hist' = [ServiceHist(cpu') EXCEPT !.op = "tick", !.n = hist.n + 1]

\* A device requests an interrupt between two M-cycles
ServiceRequest ==
  \E i \in {TimerInt, JoypadInt} :
    /\ cpu.t_cycles = 0
    /\ hist.starts < MaxServiceRequests
    /\ hist.n <= MaxServiceRequestTick
    /\ hw' = [hw EXCEPT !.interrupts = request_interrupt(hw.interrupts, i)]
    /\ hist' = [hist EXCEPT !.op = "request", !.starts = hist.starts + 1]
    /\ UNCHANGED cpu

ServiceNext == ServiceTick \/ ServiceRequest

SpecService == ServiceInit /\ [][ServiceNext]_vars

ServiceT4 == IsTick /\ cpu.t_cycles = 3 /\ cpu.state = "HandlingInterrupts"

ServiceCycle(k, name) == ServiceT4 /\ hist.m = k - 1 => cpu.cycle = name

\* the bit of the vector the CPU jumped to
VectorBit(pc) == (pc - 64) \div 8

C19_Step ==
  /\ (IsTick /\ cpu.state # "HandlingInterrupts" /\ cpu'.state = "HandlingInterrupts") =>
       /\ cpu.t_cycles = 2
       /\ cpu'.cycle = "M1" /\ ~cpu'.saw_prefix_opcode
       /\ cpu' = [cpu EXCEPT !.state = "HandlingInterrupts", !.t_cycles = 3]
  /\ ServiceT4 => hist.m < 5
  /\ ServiceCycle(1, "M1") /\ ServiceCycle(2, "M2") /\ ServiceCycle(3, "M3")
  /\ ServiceCycle(4, "M4") /\ ServiceCycle(5, "M5")
  /\ (ServiceT4 /\ hist.m = 0) =>
       /\ cpu'.pc = wrapping_sub16(cpu.pc, 1) /\ cpu'.sp = cpu.sp
       /\ read_byte(hw, cpu'.pc) = cpu.ir
       /\ cpu'.state = "HandlingInterrupts"
  /\ (ServiceT4 /\ hist.m = 1) =>
       /\ cpu'.sp = wrapping_sub16(cpu.sp, 1) /\ cpu'.pc = cpu.pc
       /\ cpu'.state = "HandlingInterrupts"
  /\ (ServiceT4 /\ hist.m = 2) =>
       /\ IsRam(cpu.sp) => read_byte(hw', cpu.sp) = cpu.pc \div 256
       /\ cpu'.sp = wrapping_sub16(cpu.sp, 1) /\ cpu'.pc = cpu.pc
       /\ cpu'.state = "HandlingInterrupts"
  /\ (ServiceT4 /\ hist.m = 3) =>
       /\ IsRam(cpu.sp) => read_byte(hw', cpu.sp) = cpu.pc % 256
       /\ cpu'.sp = cpu.sp
       /\ cpu'.pc \in {0, 64, 72, 80, 88, 96}
       /\ hw'.interrupts.requested =
            IF cpu'.pc = 0 THEN AfterPush.interrupts.requested
            ELSE WithoutBit(AfterPush.interrupts.requested, VectorBit(cpu'.pc))
       /\ cpu'.pc # 0 => VectorBit(cpu'.pc) \in PendingBits(hw) \cup PendingBits(AfterPush)
       /\ cpu'.state = "HandlingInterrupts"
  /\ (ServiceT4 /\ hist.m = 4) =>
       /\ cpu'.ir = read_byte(hw, cpu.pc)
       /\ cpu'.pc = wrapping_add16(cpu.pc, 1)
       /\ cpu'.sp = wrapping_sub16(hist.sp0, 2)
       /\ hw'.interrupts = hw.interrupts
       /\ cpu'.state = "Running"

\* C19: servicing starts only between two instructions and takes five
\* M-cycles: the first decrements PC to the address of the prefetched opcode,
\* the second decrements SP, the third writes PC's high byte at SP and
\* decrements SP, the fourth writes PC's low byte at SP, jumps and clears the
\* request bit of the dispatched interrupt and no other, the fifth fetches
\* the opcode at the vector; then SP is 2 lower and the CPU is running.
C19_FiveCycleService == [][C19_Step]_vars

\* the timer interrupt was serviced from the NOP after EI at 0x0100: the
\* return address 0x0102 is on the stack, its request bit alone was cleared
C19_Witness ==
  /\ hist.m = 5 /\ cpu.state = "Running" /\ cpu.t_cycles = 0
  /\ hw.cartridge.rom.code = <<251, 0>>
  /\ cpu.pc = 81 /\ cpu.sp = 65532 /\ hist.sp0 = 65534
  /\ read_byte(hw, 65533) = 1 /\ read_byte(hw, 65532) = 2
  /\ hw.interrupts.requested = 16 /\ hw.interrupts.enabled = 20

ImeRises == IsTick /\ ~cpu.interrupt_master_enabled /\ cpu'.interrupt_master_enabled

C20_Step ==
  /\ ImeRises =>
       /\ cpu.t_cycles = 3
       /\ hist.executed = "EI" \/ ExecutedAtT4 = "RETI"
  /\ (IsTick /\ cpu.state = "HandlingInterrupts" /\ cpu'.state = "Running") =>
       ~cpu'.interrupt_master_enabled

\* C20: the master enable goes from false to true only on the T4 after an
\* executed EI or on the T4 that completes RETI; it is false when the CPU
\* resumes at the vector after servicing; no prefixed instruction, no EI that
\* was prefetched and not executed, and no servicing M-cycle sets it.
C20_ImeOnlyByEiOrReti == [][C20_Step]_vars

\* the part that holds: outside T4 the master enable never rises, and the
\* fourth servicing M-cycle leaves it false
ImeRisesAtT4Only ==
  [][/\ ImeRises => cpu.t_cycles = 3
     /\ (ServiceT4 /\ hist.m = 3) => ~cpu'.interrupt_master_enabled]_vars

\* SET 7,E (0xCB 0xFB) was executed and the master enable is on, with no EI
\* in the program
ImeAfterSet ==
  /\ hw.cartridge.rom.code = <<203, 251>>
  /\ cpu.interrupt_master_enabled /\ cpu.e = 216

\* RETI at the timer vector set the master enable
ImeAfterReti ==
  /\ hw.cartridge.rom.code = <<251, 0, 217>>
  /\ hist.executed = "RETI" /\ cpu.interrupt_master_enabled /\ cpu.t_cycles = 0

\* EI executed with the master enable already on was followed by servicing:
\* the CPU resumes at the vector with the master enable on
ImeAfterServiceOfEi ==
  /\ hw.cartridge.rom.code = <<251, 251>>
  /\ cpu.state = "Running" /\ hist.m = 5 /\ cpu.interrupt_master_enabled

\* servicing began with EI prefetched: the handler's first instruction ran
\* with the master enable on
ImeAfterPrefetchedEi ==
  /\ hw.cartridge.rom.code = <<251, 0, 251>>
  /\ cpu.state = "Running" /\ cpu.pc \in 80..90
  /\ cpu.interrupt_master_enabled /\ hist.executed = "other"

\* EI is executed on this T4 with the master enable off
EiWithImeOff ==
  /\ IsTick /\ cpu.t_cycles = 3 /\ ExecutedAtT4 = "EI"
  /\ ~cpu.interrupt_master_enabled /\ cpu.last_instruction # 251

\* the last T4 executed EI and the master enable is still off
AfterEiWithImeOff == IsTick /\ hist.executed = "EI" /\ ~cpu.interrupt_master_enabled

DiIsNext == ~cpu.saw_prefix_opcode /\ cpu.ir = 243

C21_Step ==
  /\ EiWithImeOff =>
       /\ ~cpu'.interrupt_master_enabled
       /\ ~cpu'.should_handle_interrupts
       /\ cpu'.state = "Running"
  /\ (AfterEiWithImeOff /\ cpu.t_cycles # 3) =>
       /\ ~cpu'.interrupt_master_enabled
       /\ cpu'.state = "Running"
  /\ (AfterEiWithImeOff /\ cpu.t_cycles = 3) =>
       /\ cpu.state = "Running" /\ cpu.cycle = "M1"
       /\ ExecutedAtT4 \in {"EI", "other"}
       /\ cpu'.interrupt_master_enabled = ~DiIsNext
       /\ DiIsNext => (~cpu'.should_handle_interrupts /\ cpu'.state = "Running")
       /\ hw'.interrupts = hw.interrupts
  /\ (IsTick /\ hist.executed = "other" /\ cpu.last_instruction = 243
      /\ cpu.state = "Running" /\ cpu.cycle = "M1") =>
       cpu'.state # "HandlingInterrupts"

\* C21: EI executed with the master enable off leaves it off through its own
\* M-cycle; the next T4 turns it on and executes the instruction that follows
\* EI, before any dispatch; when that instruction is DI the master enable is
\* off again after it and no interrupt is dispatched, pending or not.
C21_EiDelayedByOneCycle == [][C21_Step]_vars

\* EI at 0x0100 and the NOP after it were executed with the timer interrupt
\* pending from the start: the master enable is on and the dispatch latched
C21_Witness ==
  /\ hw.cartridge.rom.code = <<251, 0>>
  /\ hist.executed = "other" /\ cpu.last_instruction = 0 /\ cpu.pc = 259
  /\ cpu.interrupt_master_enabled /\ cpu.should_handle_interrupts
  /\ cpu.state = "Running" /\ 2 \in PendingBits(hw)

\* EI, DI with the timer interrupt pending: DI was executed, nothing is
\* latched and the master enable is off
EiDiNoDispatch ==
  /\ hw.cartridge.rom.code = <<251, 243>>
  /\ cpu.last_instruction = 243 /\ cpu.state = "Running" /\ cpu.pc = 259
  /\ ~cpu.interrupt_master_enabled /\ ~cpu.should_handle_interrupts
  /\ 2 \in PendingBits(hw)

----------------------------------------------------------------------------
(* SpecReload: the timer under the frame scheduler around an overflow of   *)
(* TIMA, with TAC = 5 (enabled, counter bit 3), TIMA = 0xFF and TMA =      *)
(* 0x1C, and the CPU storing to TIMA or TMA on its T4.  In hist, wrap      *)
(* counts the T-cycles completed since the step that took TIMA from 0xFF   *)
(* to 0 and reload those since the step that loaded TIMA from TMA (-1      *)
(* before there was one); tima is TIMA just before the last store.         *)

\* T-cycles run in SpecReload, and the CPU's stores
MaxReloadTicks == 16
MaxReloadWrites == 1

\* Internal counters 4, 3, 2 and 1 T-cycles before bit 3 falls
ReloadCounters == {1020, 1021, 1022, 1023}
ReloadWrites == {<<TIMA, 15>>, <<TMA, 44>>}

ReloadInit ==
  /\ \E c \in ReloadCounters :
       hw = [Hardware_new(NopRom) EXCEPT
               !.timer.counter = c, !.timer.tac = 5, !.timer.tima = 255,
               !.timer.tma = 28,
               !.timer.prev_and_result = and_result(5, c)]
  /\ cpu = Cpu_with_register_defaults
  /\ hist = [op |-> "init", n |-> 0, writes |-> 0, addr |-> 0, value |-> 0,
             tima |-> 0, wrap |-> -1, reload |-> -1]

Elapsed(k) == IF k = -1 THEN -1 ELSE k + 1

\* One T-cycle of the scheduler
ReloadTick ==
  /\ hist.n < MaxReloadTicks
  /\ LET m == EmulatorTick([cpu |-> cpu, hw |-> hw])
     IN  /\ hw' = m.hw
         /\ cpu' = m.cpu
         /\ hist' = [hist EXCEPT
                       !.op = "tick", !.n = hist.n + 1,
                       !.wrap = IF hw.timer.tima = 255 /\ m.hw.timer.tima = 0
                                THEN 0 ELSE Elapsed(hist.wrap),
                       !.reload = IF hw.timer.tima = 0
                                     /\ m.hw.timer.tima = hw.timer.tma
                                  THEN 0 ELSE Elapsed(hist.reload)]

\* A store of the CPU to TIMA or TMA (on its T4, before the timer is stepped)
ReloadWrite(a, v) ==
  /\ cpu.t_cycles = 3
  /\ hist.writes < MaxReloadWrites
  /\ hw' = write_byte(hw, a, v)
  /\ hist' = [hist EXCEPT !.op = "write", !.addr = a, !.value = v,
                          !.tima = hw.timer.tima,
                          !.writes = hist.writes + 1]
  /\ UNCHANGED cpu

ReloadNext ==
  \/ ReloadTick
  \/ \E w \in ReloadWrites : ReloadWrite(w[1], w[2])

SpecReload == ReloadInit /\ [][ReloadNext]_vars

C23_Step ==
  (IsTick /\ hist.writes = 0) =>
    /\ hist.wrap \in 0..2 =>
         (hw'.timer.tima = 0 /\ ~TimerRequested(hw'))
    /\ hist.wrap = 3 =>
         (hw'.timer.tima = hw.timer.tma /\ TimerRequested(hw'))
    /\ hist.wrap = -1 => ~TimerRequested(hw')

\* C23: after the timer step that takes TIMA from 0xFF to 0, and with no
\* store made, TIMA is 0 and no timer interrupt is requested after each of
\* the next three T-cycles, and the fourth loads TIMA from TMA and requests
\* the timer interrupt; none is requested before the wrap.
C23_ReloadAfterFourCycles == [][C23_Step]_vars

\* The reload as Timer::step makes it: on the T-cycle after the wrap
ReloadOnNextStep ==
  [][(IsTick /\ hist.writes = 0) =>
       /\ hist.wrap = 0 => (hw'.timer.tima = hw.timer.tma /\ TimerRequested(hw'))
       /\ hist.wrap = -1 => ~TimerRequested(hw')]_vars

\* one T-cycle after the wrap TIMA holds TMA and the interrupt is requested
ReloadedAfterOneCycle ==
  /\ hist.op = "tick" /\ hist.writes = 0 /\ hist.wrap = 1
  /\ hw.timer.tima = 28 /\ TimerRequested(hw)

InReloadingWindow == hist.reload \in 0..3
IsStore(a) == hist'.op = "write" /\ hist'.addr = a

C24_Step ==
  /\ (IsStore(TIMA) /\ InReloadingWindow) => hw'.timer.tima = hw.timer.tima
  /\ (IsStore(TMA) /\ InReloadingWindow) =>
       (hw'.timer.tma = hist'.value /\ hw'.timer.tima = hist'.value)

\* C24: in the four T-cycles after the load of TIMA from TMA, a store to TIMA
\* leaves TIMA at the reloaded value and a store to TMA sets both TMA and
\* TIMA to the stored value.
C24_ReloadingWindowWrites == [][C24_Step]_vars

\* What Timer::write_register does in those T-cycles as in any other
WindowWritesAsAnyOther ==
  [][/\ IsStore(TIMA) => hw'.timer.tima = hist'.value
     /\ (IsStore(TMA) /\ InReloadingWindow) =>
          (hw'.timer.tma = hist'.value /\ hw'.timer.tima = hw.timer.tima)]_vars

\* a store to TIMA three T-cycles after the reload replaced the reloaded 0x1C
TimaStoredInWindow ==
  /\ hist.op = "write" /\ hist.addr = TIMA /\ hist.reload = 3
  /\ hist.tima = 28 /\ hw.timer.tima = 15

\* a store to TMA three T-cycles after the reload left TIMA at 0x1C
TmaStoredInWindow ==
  /\ hist.op = "write" /\ hist.addr = TMA /\ hist.reload = 3
  /\ hw.timer.tma = 44 /\ hw.timer.tima = 28

----------------------------------------------------------------------------
(* SpecRestart: two writes to the DMA-source register under the frame      *)
(* scheduler, the second while the transfer started by the first is in     *)
(* progress.  The CPU runs NOPs; the LCD is off.  In hist, starts counts   *)
(* the writes and at is the T-cycle count at the second one.               *)

\* T-cycles run in SpecRestart, and the last T-cycle of the second write
MaxRestartTicks == 700
MaxRestartWriteTick == 40

\* the two source pages, both in the ROM's data table
RestartSources == <<64, 65>>
FirstSource == RestartSources[1]
SecondSource == RestartSources[2]

RestartInit ==
  /\ hw = Hardware_new(NopRom)
  /\ cpu = Cpu_with_register_defaults
  /\ hist = [op |-> "init", n |-> 0, starts |-> 0, at |-> 0]

\* One T-cycle of the scheduler
RestartTick ==
  /\ hist.n < MaxRestartTicks
  /\ hist.starts > 0
  /\ LET m == EmulatorTick([cpu |-> cpu, hw |-> hw])
     IN  /\ hw' = m.hw
         /\ cpu' = m.cpu
  /\ hist' = [hist EXCEPT !.op = "tick", !.n = hist.n + 1]

\* One M-cycle of the scheduler before the first write
RestartLead ==
  /\ hist.starts = 0 /\ hist.n < 3
  /\ LET m == EmulatorTick([cpu |-> cpu, hw |-> hw])
     IN  /\ hw' = m.hw
         /\ cpu' = m.cpu
  /\ hist' = [hist EXCEPT !.op = "lead", !.n = hist.n + 1]

\* The CPU's first write to the DMA-source register, on its first T4
RestartFirstWrite ==
  /\ cpu.t_cycles = 3 /\ hist.starts = 0
  /\ hw' = write_byte(hw, 65350, FirstSource)
  /\ hist' = [hist EXCEPT !.op = "dma", !.starts = 1]
  /\ UNCHANGED cpu

\* The CPU's second write, on a later T4 with the transfer in progress
RestartSecondWrite ==
  /\ cpu.t_cycles = 3 /\ hist.starts = 1 /\ hist.op = "tick"
  /\ hist.n <= MaxRestartWriteTick
  /\ dma_transfer_running(hw)
  /\ hw' = write_byte(hw, 65350, SecondSource)
  /\ hist' = [hist EXCEPT !.op = "dma", !.starts = 2, !.at = hist.n]
  /\ UNCHANGED cpu

RestartNext ==
  \/ RestartLead
  \/ RestartFirstWrite
  \/ RestartTick
  \/ RestartSecondWrite

SpecRestart == RestartInit /\ [][RestartNext]_vars

SourceByte(h, page, i) == read_byte(h, page * 256 + i)
CopiedCells == {i \in 0..159 : StoredOam(hw', 65024 + i) # StoredOam(hw, 65024 + i)}
SinceSecondWrite == hist.n - hist.at

\* after the second write the engine is idle only once the new transfer is
\* over, and OAM then holds the 160 bytes of the new page
C25_Replaced ==
  (hist.starts = 2 /\ ~DmaActive(hw)) =>
    /\ SinceSecondWrite >= DMA_TRANSFER_DELAY + DMA_TRANSFER_DURATION
    /\ \A i \in 0..159 : StoredOam(hw, 65024 + i) = SourceByte(hw, SecondSource, i)

\* the copies made after the second write: from the old page while the new
\* request's delay runs, from the new page after it
C25_Step ==
  (hist'.op = "tick" /\ hist.starts = 2) =>
    \A i \in CopiedCells :
      StoredOam(hw', 65024 + i) =
        IF SinceSecondWrite < DMA_TRANSFER_DELAY
        THEN SourceByte(hw, FirstSource, i)
        ELSE SourceByte(hw, SecondSource, i)

\* C25: a write to the DMA-source register during a transfer lets the running
\* transfer copy from its own page for the 4 T-cycles of the new request's
\* delay; the engine then restarts at index 0 with the new page, copies all
\* 160 bytes of it and is idle after that, so that nothing of the old page is
\* copied after the replacement.
C25_DmaRestart == [][C25_Step /\ C25_Replaced']_vars

\* The running transfer as Hardware::step_dma_transfer continues it: every
\* copy after the second write is from the new page at the running index,
\* and the engine is idle when the first transfer's ticks are over
DmaContinuesWithNewPage ==
  /\ [][(hist'.op = "tick" /\ hist.starts = 2) =>
          \A i \in CopiedCells :
            /\ StoredOam(hw', 65024 + i) = SourceByte(hw, SecondSource, i)
            /\ i = hw.ppu.dma_transfer.ticks \div CLOCKS_PER_TRANSFER]_vars
  /\ [](hist.starts = 2 =>
          (DmaActive(hw) <=> hist.n < 3 + 1 + DMA_TRANSFER_DELAY
                                        + DMA_TRANSFER_DURATION - CLOCKS_PER_TRANSFER))

\* the engine is idle after a second write made at T-cycle 23: OAM[0] is of
\* the first page, OAM[158] of the second, OAM[159] was never written
RestartIgnored ==
  /\ hist.starts = 2 /\ hist.at = 23 /\ ~DmaActive(hw)
  /\ StoredOam(hw, 65024) = SourceByte(hw, FirstSource, 0)
  /\ StoredOam(hw, 65024 + 158) = SourceByte(hw, SecondSource, 158)
  /\ StoredOam(hw, 65024 + 159) = 0

----------------------------------------------------------------------------
(* SpecLines: the PPU stepped dot by dot from the reset state with the LCD *)
(* enabled and no register written, the CPU acknowledging the VBlank       *)
(* interrupt at any time after it was requested.  In hist, n counts the    *)
(* dots stepped since the reset state.                                     *)

DotsPerLine == 456
DotsPerFrame == 70224

\* dots stepped in SpecLines: one frame and two lines of the next
MaxLineDots == 71136

\* LCDC with the LCD alone enabled, and as games set it (0x91)
LineLcdcs == {128, 145}

\* The state n dots after reset, for n in the first frame past its first dot
\* and before line 144 ends
LineState(lcdc, n) ==
  LET line == n \div DotsPerLine
      x == n % DotsPerLine
      mode == IF line >= 144 THEN VBlankMode
              ELSE IF x < 80 THEN OamScan
              ELSE IF x < 252 THEN PixelTransfer ELSE HBlank
      coincidence == IF line = 0 THEN StatCoincidence ELSE 0
  IN  [Hardware_new(NopRom) EXCEPT
         !.ppu.lcdc = lcdc, !.ppu.ly = line, !.ppu.stat = mode + coincidence,
         !.ppu.counter = IF mode = PixelTransfer THEN x - 80
                         ELSE IF mode = HBlank THEN x - 252 ELSE x]

\* dots at which a run is taken up: the reset state, the last dot of line
\* 143 and the last dot of line 152
LateStarts == {144 * DotsPerLine - 1, 153 * DotsPerLine - 1}
LineStarts == {0} \cup LateStarts

LineInit ==
  /\ \E lcdc \in LineLcdcs, n \in LineStarts :
       /\ hw = IF n = 0 THEN [Hardware_new(NopRom) EXCEPT !.ppu.lcdc = lcdc]
               ELSE LineState(lcdc, n)
       /\ hist = [op |-> "init", n |-> n]
  /\ cpu = Cpu_new

LinePpuStep ==
  /\ hist.n < MaxLineDots
  /\ hw' = step_ppu(hw)
  /\ hist' = [hist EXCEPT !.op = "ppu", !.n = hist.n + 1]
  /\ UNCHANGED cpu

\* The CPU acknowledges the VBlank interrupt (Hardware::clear_interrupt)
LineAcknowledge ==
  /\ is_flag_set(hw.interrupts.requested, VBlank)
  /\ hw' = clear_interrupt(hw, VBlank)
  /\ hist' = [hist EXCEPT !.op = "ack"]
  /\ UNCHANGED cpu

LineNext == LinePpuStep \/ LineAcknowledge

SpecLines == LineInit /\ [][LineNext]_vars

\* Where the claim puts the PPU n dots after reset
LineOf(n) == (n % DotsPerFrame) \div DotsPerLine
DotOf(n) == n % DotsPerLine
ModeOf(n) ==
  IF LineOf(n) >= 144 THEN VBlankMode
  ELSE IF DotOf(n) < 80 THEN OamScan
  ELSE IF DotOf(n) < 80 + 172 THEN PixelTransfer
  ELSE HBlank

VBlankRequested(h) == is_flag_set(h.interrupts.requested, VBlank)

C26_Position ==
  /\ hw.ppu.ly = LineOf(hist.n)
  /\ ModeBits(hw) = ModeOf(hist.n)
  /\ (hist.n % DotsPerFrame = 0) <=>
       (hw.ppu.ly = 0 /\ ModeBits(hw) = OamScan /\ hw.ppu.counter = 0)

C26_Step ==
  hist'.op = "ppu" =>
    IF hist'.n % DotsPerFrame = 144 * DotsPerLine
    THEN VBlankRequested(hw')
    ELSE VBlankRequested(hw') = VBlankRequested(hw)

\* C26: with the LCD enabled and nothing written, n dots after reset LY is
\* (n mod 70224) div 456, the mode is VBlank on lines 144..153 and else OAM
\* scan for the line's dots 0..79, pixel transfer for 80..251 and HBlank for
\* 252..455, and the PPU is at the start of line 0 exactly when n is a
\* multiple of 70224; a PPU step requests the VBlank interrupt exactly when
\* it is the one that makes LY 144.
C26_FrameTiming == [][C26_Step /\ C26_Position']_vars

\* C26 witness: the step that made LY 144 requested the VBlank interrupt
C26_Witness ==
  /\ hist.op = "ppu" /\ hist.n = 144 * DotsPerLine
  /\ hw.ppu.ly = 144 /\ ModeBits(hw) = VBlankMode /\ VBlankRequested(hw)

\* the states a run is taken up from are those of the run from reset
LateStartsAsFromReset ==
  (hist.n \in LateStarts /\ ~VBlankRequested(hw)) =>
    hw = LineState(hw.ppu.lcdc, hist.n)

----------------------------------------------------------------------------
(* The PPU's mode against LY and LCDC, under SpecLcd.                      *)

InVBlankLines(h) == h.ppu.ly \in 144..153

\* C27: in every state, also after LCDC writes that switch the LCD off and
\* on, the mode is VBlank exactly when LY is one of 144..153, and LY is at
\* most 153.
C27_VBlankIffLyInRange ==
  /\ (ModeBits(hw) = VBlankMode) <=> InVBlankLines(hw)
  /\ hw.ppu.ly <= 153

\* the half that holds: LY is at most 153, and on lines 144..153 the mode is
\* VBlank
VBlankOnLastLines ==
  /\ InVBlankLines(hw) => ModeBits(hw) = VBlankMode
  /\ hw.ppu.ly <= 153

\* the LCD was switched off on line 153: LY is 0 and the mode is VBlank
VBlankOnLineZero ==
  /\ hist.op = "write" /\ hist.address = 65344 /\ hist.value = 0
  /\ hw.ppu.ly = 0 /\ ModeBits(hw) = VBlankMode

IsPpuStep == hist'.op = "ppu"
LcdRequested(h) == is_flag_set(h.interrupts.requested, Lcd)

C28_Step ==
  (IsPpuStep /\ ~LcdOn(hw)) =>
    /\ hw.ppu.ly = 0 => hw'.ppu.ly = 0
    /\ ModeBits(hw') = ModeBits(hw)
    /\ hw'.ppu.buffer = hw.ppu.buffer
    /\ VBlankRequested(hw') = VBlankRequested(hw)
    /\ LcdRequested(hw') = LcdRequested(hw)

\* C28: a PPU step made while bit 7 of LCDC is clear leaves LY at 0 and the
\* mode bits of the status register as they are, renders no scanline and
\* requests neither the VBlank nor the LCD-stat interrupt.
C28_QuiescentWhileOff == [][C28_Step]_vars

\* the part that holds: no scanline is rendered while the LCD is off
NoRenderingWhileOff ==
  [][(IsPpuStep /\ ~LcdOn(hw)) => hw'.ppu.buffer = hw.ppu.buffer]_vars

\* with the LCD off since the start, a PPU step ended line 143 and requested
\* the VBlank interrupt
VBlankWhileOff ==
  /\ hist.op = "ppu" /\ hist.writes = 0 /\ ~LcdOn(hw)
  /\ hw.ppu.ly = 144 /\ ModeBits(hw) = VBlankMode /\ VBlankRequested(hw)

\* with the LCD off since the start, a PPU step ended OAM scan
ModeChangedWhileOff ==
  /\ hist.op = "ppu" /\ hist.writes = 0 /\ hist.dots = 1 /\ ~LcdOn(hw)
  /\ hw.ppu.ly = 0 /\ ModeBits(hw) = PixelTransfer /\ hw.ppu.counter = 0

----------------------------------------------------------------------------
(* SpecStat: the LCD-stat interrupt.  The PPU is stepped with the LCD on   *)
(* from just before each of its mode changes, with the enable bits of the  *)
(* status register and LYC chosen at the start; the CPU writes the status  *)
(* register and LYC and acknowledges the LCD-stat interrupt.  In hist, cmp *)
(* is the outcome of the LY = LYC comparison of the last PPU step.         *)

MaxStatDots == 3
MaxStatWrites == 2

\* enable bits of the status register: none, each one, bits 3 and 5 and 6
StatEnables == {0, 8, 16, 32, 64, 104}
StatLycs == {0, 144}
\* stores to the status register: 0, bit 6, bits 6 and 2, bits 5 and 3
StatWriteValues == {0, 64, 68, 40}

STAT == 65345
LYC == 65349

StatInit ==
  /\ \E pt \in PpuPoints \cup {<<OamScan, 0, 0>>}, e \in StatEnables, lyc \in StatLycs :
       LET flag == IF pt[2] > 0 /\ pt[3] = lyc THEN StatCoincidence ELSE 0
       IN  /\ hw = [Hardware_new(NopRom) EXCEPT !.ppu.lcdc = 128,
                                                !.ppu.stat = pt[1] + e + flag,
                                                !.ppu.counter = pt[2],
                                                !.ppu.ly = pt[3],
                                                !.ppu.lyc = lyc]
           /\ hist = [op |-> "init", dots |-> 0, writes |-> 0, address |-> 0,
                      value |-> 0, cmp |-> flag # 0]
  /\ cpu = Cpu_new

StatPpuStep ==
  /\ hist.dots < MaxStatDots
  /\ hw' = step_ppu(hw)
  /\ hist' = [hist EXCEPT !.op = "ppu", !.dots = hist.dots + 1,
                          !.cmp = hw.ppu.ly = hw.ppu.lyc]
  /\ UNCHANGED cpu

\* A store of the CPU to the status register or to LYC
StatWrite(address, value) ==
  /\ hist.writes < MaxStatWrites
  /\ hw' = write_byte(hw, address, value)
  /\ hist' = [hist EXCEPT !.op = "write", !.writes = hist.writes + 1,
                          !.address = address, !.value = value]
  /\ UNCHANGED cpu

\* The CPU acknowledges the LCD-stat interrupt (Hardware::clear_interrupt)
StatAcknowledge ==
  /\ is_flag_set(hw.interrupts.requested, Lcd)
  /\ hw' = clear_interrupt(hw, Lcd)
  /\ hist' = [hist EXCEPT !.op = "ack"]
  /\ UNCHANGED cpu

StatNext ==
  \/ StatPpuStep
  \/ \E v \in StatWriteValues : StatWrite(STAT, v)
  \/ \E v \in StatLycs : StatWrite(LYC, v)
  \/ StatAcknowledge

SpecStat == StatInit /\ [][StatNext]_vars

StatBit(h, flag) == is_flag_set(h.ppu.stat, flag)
Enters(mode) == IsPpuStep /\ ModeBits(hw) # mode /\ ModeBits(hw') = mode
\* a PPU step with no request outstanding and the coincidence source disabled
ModeSourcesAlone == ~LcdRequested(hw) /\ ~StatBit(hw, LycInterrupt)

C29_Step ==
  ModeSourcesAlone =>
    /\ Enters(HBlank) => (LcdRequested(hw') <=> StatBit(hw, HBlankInterrupt))
    /\ Enters(VBlankMode) => (LcdRequested(hw') <=> StatBit(hw, VBlankInterrupt))
    /\ Enters(OamScan) => (LcdRequested(hw') <=> StatBit(hw, OamInterrupt))
    /\ Enters(PixelTransfer) => ~LcdRequested(hw')

\* C29: the PPU step that enters HBlank, VBlank or OAM scan requests the
\* LCD-stat interrupt exactly when bit 3, bit 4 or bit 5 of the status
\* register is set at that step; the step that enters pixel transfer
\* requests none.
C29_StatOnModeEntry == [][C29_Step]_vars

\* The requests as Ppu::step makes them: bit 5 is served on the entry into
\* pixel transfer and the entry into OAM scan requests nothing
StatOnModeEntryInCode ==
  [][ModeSourcesAlone =>
       /\ Enters(HBlank) => (LcdRequested(hw') <=> StatBit(hw, HBlankInterrupt))
       /\ Enters(VBlankMode) => (LcdRequested(hw') <=> StatBit(hw, VBlankInterrupt))
       /\ Enters(OamScan) => ~LcdRequested(hw')
       /\ Enters(PixelTransfer) => (LcdRequested(hw') <=> StatBit(hw, OamInterrupt))]_vars

\* with bit 5 alone set, the step into pixel transfer requested the interrupt
StatOnPixelTransfer ==
  /\ hist.op = "ppu" /\ hist.dots = 1 /\ hist.writes = 0
  /\ ModeBits(hw) = PixelTransfer /\ hw.ppu.counter = 0
  /\ StatBit(hw, OamInterrupt) /\ ~StatBit(hw, LycInterrupt) /\ LcdRequested(hw)

\* with bit 5 alone set, the step into OAM scan of line 1 requested nothing
NoStatOnOamScan ==
  /\ hist.op = "ppu" /\ hist.dots = 1 /\ hist.writes = 0
  /\ ModeBits(hw) = OamScan /\ hw.ppu.counter = 0 /\ hw.ppu.ly = 1
  /\ StatBit(hw, OamInterrupt) /\ ~StatBit(hw, LycInterrupt) /\ ~LcdRequested(hw)

\* a PPU step that stays in its mode, with no request outstanding
CoincidenceAlone == IsPpuStep /\ ModeBits(hw') = ModeBits(hw) /\ ~LcdRequested(hw)
Compared == hw.ppu.ly = hw.ppu.lyc

C30_Step ==
  /\ IsPpuStep => (StatBit(hw', StatCoincidence) <=> Compared)
  /\ CoincidenceAlone =>
       (LcdRequested(hw') => (Compared /\ ~hist.cmp /\ StatBit(hw, LycInterrupt)))

\* C30: after a PPU step bit 2 of the status register is the outcome of that
\* step's LY = LYC comparison, and the step requests the LCD-stat interrupt
\* for the coincidence only when the comparison holds, did not hold at the
\* step before and bit 6 is set - whatever was stored to the status register
\* between the two steps.
C30_CoincidenceOnRisingEdge == [][C30_Step]_vars

\* The request as Ppu::step makes it: on a comparison that holds while bit 2
\* is clear and bit 6 set
CoincidenceOnClearFlag ==
  [][/\ IsPpuStep => (StatBit(hw', StatCoincidence) <=> Compared)
     /\ CoincidenceAlone =>
          (LcdRequested(hw') <=>
             (Compared /\ ~StatBit(hw, StatCoincidence) /\ StatBit(hw, LycInterrupt)))]_vars

\* LY = LYC held at two steps in a row, the status register was written in
\* between with bit 6 set and bit 2 clear, and the second step requested the
\* interrupt again
CoincidenceRequestedTwice ==
  /\ hist.op = "ppu" /\ hist.cmp /\ hist.dots = 2 /\ hist.writes = 1
  /\ hist.address = STAT /\ hist.value = 64
  /\ hw.ppu.ly = hw.ppu.lyc /\ LcdRequested(hw)

----------------------------------------------------------------------------
(* The 0xCB prefix, under SpecService.                                     *)

ExecutesPrefix == ExecutesAtT4 /\ ~cpu.saw_prefix_opcode /\ cpu.ir = 203
ExecutesPrefixed == ExecutesAtT4 /\ cpu.saw_prefix_opcode

C31_Step ==
  /\ (IsTick /\ (cpu.saw_prefix_opcode \/ cpu'.saw_prefix_opcode)) =>
       (cpu.state = "Running" /\ cpu'.state = "Running")
  /\ ExecutesPrefix =>
       /\ cpu'.saw_prefix_opcode /\ ~cpu'.should_handle_interrupts
       /\ cpu'.ir = read_byte(hw, cpu.pc) /\ cpu'.pc = wrapping_add16(cpu.pc, 1)
  /\ (ExecutesPrefixed /\ cpu.ir = 207) =>
       (cpu'.a = BitOr(cpu.a, 2) /\ cpu'.sp = cpu.sp /\ cpu'.pc = wrapping_add16(cpu.pc, 1))
  /\ (ExecutesPrefixed /\ cpu.ir = 251) =>
       (cpu'.e = BitOr(cpu.e, 128) /\ cpu'.a = cpu.a)
  /\ ExecutesPrefixed =>
       /\ ~cpu'.saw_prefix_opcode
       /\ cpu'.should_handle_interrupts =
            (ImeAtT4 /\ has_pending_interrupts(hw))
  /\ (IsTick /\ cpu.saw_prefix_opcode /\ cpu.t_cycles # 3) => cpu'.saw_prefix_opcode

\* C31: from the T4 that executes 0xCB to the T4 that completes the prefixed
\* instruction the CPU never enters interrupt servicing, whatever is pending
\* and requested meanwhile; the byte after the prefix is executed as the
\* extended instruction (0xCF sets bit 1 of A and is no RST, 0xFB sets bit 7
\* of E), and after it the prefix is over and the dispatch is latched as
\* after any instruction.
C31_PrefixNotInterrupted == [][C31_Step]_vars

\* C31 witness: with IME on, an interrupt was requested between 0xCB and
\* 0xCF; SET 1,A was executed and the dispatch is latched after it
C31_Witness ==
  /\ hw.cartridge.rom.code = <<251, 203, 207>>
  /\ hw.interrupts.requested # 0 /\ hist.starts = 1 /\ hist.n = 12
  /\ cpu.last_instruction = 207 /\ cpu.a = 3 /\ cpu.pc = 260
  /\ ~cpu.saw_prefix_opcode /\ cpu.should_handle_interrupts
  /\ cpu.state = "Running"

\* the request made between the two bytes, IME on
RequestedAfterPrefix ==
  /\ hist.op = "request" /\ cpu.saw_prefix_opcode /\ cpu.ir = 207
  /\ cpu.interrupt_master_enabled /\ PendingBits(hw) # {}

----------------------------------------------------------------------------
(* SpecBranch: one call, jump or return at 0x0100 under the frame          *)
(* scheduler, for every condition and every value of the Z and C flags,    *)
(* with the stack in high RAM or in work RAM; the rest of the ROM is NOPs  *)
(* and no interrupt is enabled.  In hist, m counts the T4 ticks spent on   *)
(* the instruction in progress, op is its opcode, flags, sp and at are F,  *)
(* SP and the address after the opcode when it started, and len is the     *)
(* count of T4 ticks the last completed instruction took.                  *)

MaxBranchTicks == 40

RetOps == {201}
RetCcOps == {192, 200, 208, 216}
CallOps == {205}
CallCcOps == {196, 204, 212, 220}
JpOps == {195}
JpCcOps == {194, 202, 210, 218}
JpHlOps == {233}
JrOps == {24}
JrCcOps == {32, 40, 48, 56}

\* the branch with its operand bytes: the target 0x0150, the offsets +5, -5
BranchCode(op) ==
  CASE op \in CallOps \cup CallCcOps \cup JpOps \cup JpCcOps -> {<<op, 80, 1>>}
    [] op \in JrOps \cup JrCcOps -> {<<op, 5>>, <<op, 251>>}
    [] OTHER -> {<<op>>}
BranchOps ==
  RetOps \cup RetCcOps \cup CallOps \cup CallCcOps \cup JpOps \cup JpCcOps
    \cup JpHlOps \cup JrOps \cup JrCcOps
BranchFlags == {0, 16, 128, 144}
BranchStacks == {65532, 53248}

BranchInit ==
  /\ \E op \in BranchOps : \E code \in BranchCode(op) :
       hw = [Hardware_new(CodeRom(256, code)) EXCEPT
               !.high_ram = ArraySet(ArraySet(EmptyArray, 124, 52), 125, 18),
               !.memory = ArraySet(ArraySet(EmptyArray, 4096, 52), 4097, 18)]
  /\ \E f \in BranchFlags, s \in BranchStacks :
       cpu = [Cpu_with_register_defaults EXCEPT !.flags = f, !.sp = s]
  /\ hist = [op |-> "init", n |-> 0, m |-> 0, opcode |-> 0, flags |-> 0,
             sp |-> 0, at |-> 0, len |-> 0]

\* hist after the T4 that the tick from this state is
BranchHist(c2) ==
  LET m1 == hist.m + 1
      started == IF hist.m = 0
                 THEN [hist EXCEPT !.opcode = cpu.ir, !.flags = cpu.flags,
                                   !.sp = cpu.sp, !.at = cpu.pc]
                 ELSE hist
  IN  IF c2.cycle = "M1"
      THEN [started EXCEPT !.m = 0, !.len = m1]
      ELSE [started EXCEPT !.m = m1]

\* One T-cycle of the scheduler
BranchTick ==
  /\ hist.n < MaxBranchTicks
  /\ LET m == EmulatorTick([cpu |-> cpu, hw |-> hw])
     IN  /\ hw' = m.hw
         /\ cpu' = m.cpu
  /\ hist' = [(IF cpu.t_cycles = 3 THEN BranchHist(cpu') ELSE hist)
                EXCEPT !.op = "tick", !.n = hist.n + 1]

BranchNext == BranchTick

SpecBranch == BranchInit /\ [][BranchNext]_vars

\* whether the condition of opcode op holds under the flags f
Taken(op, f) ==
  LET z == (f \div 128) % 2 = 1
      c == (f \div 16) % 2 = 1
  IN  CASE (op \div 8) % 4 = 0 -> ~z
        [] (op \div 8) % 4 = 1 -> z
        [] (op \div 8) % 4 = 2 -> ~c
        [] (op \div 8) % 4 = 3 -> c

Conditional(op) == op \in RetCcOps \cup CallCcOps \cup JpCcOps \cup JrCcOps

\* M-cycles of a taken branch
TakenLength(op) ==
  CASE op \in RetOps -> 4
    [] op \in RetCcOps -> 5
    [] op \in CallOps \cup CallCcOps -> 6
    [] op \in JpHlOps -> 1
    [] op \in JpOps \cup JpCcOps -> 4
    [] op \in JrOps \cup JrCcOps -> 3

\* M-cycles of a branch that is not taken
NotTakenLength(op) == IF op \in RetCcOps THEN 2 ELSE TakenLength(op) - 1

\* the branches whose length the claim gives when they are not taken
NotTakenStated == RetCcOps \cup JpCcOps \cup JrCcOps

OperandBytes(op) ==
  CASE op \in CallCcOps \cup JpCcOps -> 2
    [] op \in JrCcOps -> 1
    [] OTHER -> 0

\* the instruction whose last T4 this step is, and whether it was not taken
Completes == IsTick /\ cpu.t_cycles = 3 /\ cpu'.cycle = "M1"
CompletedOp == hist'.opcode
NotTaken == Conditional(CompletedOp) /\ ~Taken(CompletedOp, hist'.flags)
InNotTaken ==
  /\ IsTick /\ cpu.t_cycles = 3
  /\ Conditional(hist'.opcode) /\ ~Taken(hist'.opcode, hist'.flags)

C32_Step ==
  /\ (Completes /\ CompletedOp \in BranchOps
      /\ (NotTaken => CompletedOp \in NotTakenStated)) =>
       hist'.len = IF NotTaken THEN NotTakenLength(CompletedOp)
                   ELSE TakenLength(CompletedOp)
  /\ InNotTaken =>
       /\ cpu'.sp = cpu.sp
       /\ hw'.memory = hw.memory /\ hw'.high_ram = hw.high_ram
  /\ (Completes /\ NotTaken) =>
       /\ cpu'.sp = hist'.sp
       /\ cpu'.ir = read_byte(hw, hist'.at + OperandBytes(CompletedOp))
       /\ cpu'.pc = hist'.at + OperandBytes(CompletedOp) + 1

\* C32: counted in T4 ticks from its first M-cycle to the fetch of the next
\* opcode, RET takes 4 M-cycles, RET cc 5 taken and 2 not taken, CALL and a
\* taken CALL cc 6, JP HL 1, JP and a taken JP cc 4 and JR and a taken JR cc
\* 3, and a JP cc or JR cc that is not taken one less than taken; a
\* branch that is not taken changes neither SP nor memory and ends with the
\* opcode of the following instruction fetched.
C32_BranchCycles == [][C32_Step]_vars

\* C32 witness: CALL Z with Z set took six M-cycles, pushed 0x0103 and
\* fetched the opcode at 0x0150
C32_Witness ==
  /\ hist.opcode = 204 /\ hist.flags = 128 /\ hist.len = 6 /\ hist.m = 0
  /\ hist.n = 24
  /\ cpu.sp = 65530 /\ cpu.pc = 337
  /\ read_byte(hw, 65531) = 1 /\ read_byte(hw, 65530) = 3

\* RET NC with C set took two M-cycles and left SP where it was
RetNotTaken ==
  /\ hist.opcode = 208 /\ hist.flags = 16 /\ hist.len = 2 /\ hist.n = 8
  /\ cpu.sp = 65532 /\ cpu.pc = 258

\* RET took four M-cycles and popped 0x1234
RetTaken ==
  /\ hist.opcode = 201 /\ hist.len = 4 /\ hist.n = 16
  /\ cpu.sp = 65534 /\ cpu.pc = 4661

\* JR NZ, -5 with Z clear took three M-cycles and fetched the opcode at 0x00FD
JrTakenBackwards ==
  /\ hist.opcode = 32 /\ hist.flags = 0 /\ hist.len = 3 /\ hist.n = 12
  /\ cpu.pc = 254

----------------------------------------------------------------------------
(* SpecHang: an unused opcode at 0x0100, alone or after EI or EI NOP,      *)
(* under the frame scheduler of a build without debug assertions, with     *)
(* the timer interrupt enabled and requested or not.  In hist, hung tells  *)
(* that a T4 has executed the unused opcode.                               *)

MaxHangTicks == 24

HangPrefixes == {<<>>, <<251>>, <<251, 0>>}
HangRequested == {0, 4}

HangInit ==
  /\ \E op \in UnusedOpcodes, pre \in HangPrefixes, rq \in HangRequested :
       hw = [Hardware_new(CodeRom(256, pre \o <<op>>)) EXCEPT
               !.interrupts = set_requested(set_enabled(Interrupts_new, 4), rq)]
  /\ cpu = Cpu_with_register_defaults
  /\ hist = [op |-> "init", n |-> 0, hung |-> FALSE]

ExecutesUnused == ExecutesAtT4 /\ ~cpu.saw_prefix_opcode /\ cpu.ir \in UnusedOpcodes

\* One T-cycle of the scheduler
HangTick ==
  /\ hist.n < MaxHangTicks
  /\ LET m == EmulatorTick([cpu |-> cpu, hw |-> hw])
     IN  /\ hw' = m.hw
         /\ cpu' = m.cpu
  /\ hist' = [hist EXCEPT !.op = "tick", !.n = hist.n + 1,
                          !.hung = hist.hung
                                     \/ (cpu.t_cycles = 3 /\ cpu.state = "Running"
                                         /\ ~cpu.saw_prefix_opcode
                                         /\ cpu.ir \in UnusedOpcodes)]

HangNext == HangTick

SpecHang == HangInit /\ [][HangNext]_vars

C33_Step ==
  /\ ExecutesUnused =>
       /\ cpu' = [cpu EXCEPT !.t_cycles = 0, !.interrupt_master_enabled = ImeAtT4]
       /\ hw' = HardwareAlone
  /\ (IsTick /\ hist.hung) =>
       /\ CpuIdle
       /\ cpu.state = "Running" /\ cpu.ir \in UnusedOpcodes
       /\ hw' = HardwareAlone

\* C33: in a build without debug assertions, the T4 that executes an unused
\* opcode changes nothing in the CPU but the T-cycle count (and the master
\* enable, when EI came just before), and after it every CPU step leaves PC,
\* SP, the instruction register and every other field as they are: nothing
\* is fetched and no interrupt is serviced, while the hardware is what the
\* clock, timer, PPU and DMA steps make of it.
C33_UnusedOpcodeHangs == [][C33_Step]_vars

\* C33 witness: two M-cycles after EI, 0xDD the CPU is still on 0xDD with
\* the timer interrupt pending and IME on, and the timer has counted on
C33_Witness ==
  /\ hist.hung /\ hist.n = 16 /\ hw.cartridge.rom.code = <<251, 221>>
  /\ cpu.ir = 221 /\ cpu.pc = 258 /\ cpu.state = "Running"
  /\ cpu.interrupt_master_enabled /\ 2 \in PendingBits(hw)
  /\ hw.timer.counter = 43980 + 16

----------------------------------------------------------------------------
(* SpecSeq: the APU's frame sequencer.  The APU is on and the four         *)
(* channels have been triggered with their length timers enabled, and the  *)
(* sweep and the envelopes at pace 7; the only step is Hardware::step_apu. *)
(* A run starts right after a clock of the frame sequencer or three dots   *)
(* before one, at any of the eight steps.                                  *)

MaxSeqTicks == 8200

NR52 == 65318

\* The stores of a program that switches every channel on: sweep pace 7,
\* envelope from volume 15 downwards at pace 7, length 64 (256), then
\* trigger with the length timer enabled
ChannelSetup ==
  <<<<65296, 112>>, <<65298, 247>>, <<65297, 0>>, <<65300, 192>>,
    <<65303, 247>>, <<65302, 0>>, <<65305, 192>>,
    <<65306, 128>>, <<65307, 0>>, <<65310, 192>>,
    <<65313, 247>>, <<65312, 0>>, <<65315, 192>>>>

RECURSIVE write_bytes(_, _)
write_bytes(h, stores) ==
  IF stores = <<>> THEN h
  ELSE write_bytes(write_byte(h, Head(stores)[1], Head(stores)[2]), Tail(stores))

\* The hardware after the APU was switched on, ran for step * 8192 + cycles
\* dots with the host draining the audio FIFO, and was then set up
ApuRunning(step, cycles) ==
  write_bytes(
    [write_byte(Hardware_new(NopRom), NR52, 128) EXCEPT
       !.apu.frame_sequencer_step = step,
       !.apu.frame_sequencer_cycles = cycles,
       !.apu.dots = (step * FRAME_SEQEUNCER_CYCLES + cycles) % SAMPLES_PER_CYCLE],
    ChannelSetup)

SeqInit ==
  /\ \E step \in 0..(FRAME_SEQUENCER_STEP_COUNT - 1),
        cycles \in {0, FRAME_SEQEUNCER_CYCLES - 3} :
       /\ hw = ApuRunning(step, cycles)
       /\ hist = [op |-> "init", ticks |-> 0, since |-> cycles]
  /\ cpu = Cpu_new

\* hist.since: the APU dots since the last clock of the frame sequencer
SeqTick ==
  /\ hist.ticks < MaxSeqTicks
  /\ hw' = step_apu(hw)
  /\ hist' = [op |-> "tick", ticks |-> hist.ticks + 1,
              since |-> IF hw'.apu.frame_sequencer_step # hw.apu.frame_sequencer_step
                        THEN 0 ELSE hist.since + 1]
  /\ UNCHANGED cpu

SeqNext == SeqTick

SpecSeq == SeqInit /\ [][SeqNext]_vars

SeqClocked == hw'.apu.frame_sequencer_step # hw.apu.frame_sequencer_step
SeqStep == hw.apu.frame_sequencer_step
LengthTimers(h) ==
  <<h.apu.channel1.length_timer, h.apu.channel2.length_timer,
    h.apu.channel3.length_timer, h.apu.channel4.length_timer>>
EnvelopeTimers(h) ==
  <<h.apu.channel1.envelope_timer, h.apu.channel2.envelope_timer,
    h.apu.channel4.envelope_timer>>

C34_Step ==
  /\ SeqClocked <=> hist.since + 1 = FRAME_SEQEUNCER_CYCLES
  /\ SeqStep \in 0..7
  /\ SeqClocked => hw'.apu.frame_sequencer_step = (SeqStep + 1) % 8
  /\ \A i \in 1..4 :
       /\ LengthTimers(hw)[i] > 0
       /\ LengthTimers(hw')[i] =
            IF SeqClocked /\ SeqStep \in {0, 2, 4, 6}
            THEN LengthTimers(hw)[i] - 1 ELSE LengthTimers(hw)[i]
  /\ hw.apu.channel1.sweep_timer > 1
  /\ hw'.apu.channel1.sweep_timer =
       IF SeqClocked /\ SeqStep \in {2, 6}
       THEN hw.apu.channel1.sweep_timer - 1 ELSE hw.apu.channel1.sweep_timer
  /\ \A i \in 1..3 :
       /\ EnvelopeTimers(hw)[i] > 1
       /\ EnvelopeTimers(hw')[i] =
            IF SeqClocked /\ SeqStep = 7
            THEN EnvelopeTimers(hw)[i] - 1 ELSE EnvelopeTimers(hw)[i]

\* C34: while the APU is on the frame sequencer is clocked exactly once every
\* 8192 APU ticks; its step lies in 0..7 and advances by one modulo 8 at each
\* clock; the length timers of the four channels are ticked at exactly the
\* clocks of steps 0, 2, 4 and 6, the sweep at exactly those of steps 2 and
\* 6, the envelopes of channels 1, 2 and 4 at exactly those of step 7.
C34_FrameSequencer == [][C34_Step]_vars

\* the clock of step 2 has ticked the length timers and the sweep
C34_Witness ==
  /\ hist.op = "tick" /\ hist.ticks = 3 /\ hist.since = 0
  /\ hw.apu.frame_sequencer_step = 3
  /\ LengthTimers(hw) = <<63, 63, 255, 63>>
  /\ hw.apu.channel1.sweep_timer = 6
  /\ EnvelopeTimers(hw) = <<7, 7, 7>>

\* the clock of step 7 has ticked the envelopes alone
EnvelopesClocked ==
  /\ hist.op = "tick" /\ hist.since = 0 /\ hw.apu.frame_sequencer_step = 0
  /\ EnvelopeTimers(hw) = <<6, 6, 6>>
  /\ hw.apu.channel1.sweep_timer = 7

----------------------------------------------------------------------------
(* SpecApu: stores to the registers of one sound channel and to the master *)
(* switch, between the dots of the APU.                                    *)

\* The APU that was switched on and then ran for dots dots with no store to
\* it, the host draining the audio FIFO: the frequency timers of the silent
\* channels reload from period 0 (8192, 4096 and 8 dots)
ApuIdle(dots) ==
  [Apu_new EXCEPT
     !.nr52 = 128,
     !.frame_sequencer_step = (dots \div FRAME_SEQEUNCER_CYCLES) % FRAME_SEQUENCER_STEP_COUNT,
     !.frame_sequencer_cycles = dots % FRAME_SEQEUNCER_CYCLES,
     !.dots = dots % SAMPLES_PER_CYCLE,
     !.channel1.frequency_timer = (8192 - (dots % 8192)) % 8192,
     !.channel1.duty_step = ((dots + 8191) \div 8192) % 8,
     !.channel2.frequency_timer = (8192 - (dots % 8192)) % 8192,
     !.channel2.duty_step = ((dots + 8191) \div 8192) % 8,
     !.channel3.frequency_timer = (4096 - (dots % 4096)) % 4096,
     !.channel3.wave_ram_index = ((dots + 4095) \div 4096) % 32,
     !.channel4.frequency_timer = (8 - (dots % 8)) % 8]

MaxApuTicks == 4
MaxApuWrites == 3

\* The frame-sequencer steps a run starts at: an even one, an odd one, and
\* the one before the wrap
ApuSteps == {0, 1, 7}

\* The address of NRx0 of channel ch; NR20 and NR40 are undocumented cells
ChannelBase(ch) == 65296 + 5 * (ch - 1)

\* The store that switches the DAC of channel ch on
DacOn(ch) == IF ch = 3 THEN <<ChannelBase(3), 128>> ELSE <<ChannelBase(ch) + 2, 240>>

\* Mix registers, one byte of wave RAM, and the setup of the channels but ch
OtherSetup(ch) ==
  <<<<65316, 119>>, <<65317, 255>>, <<65328, 18>>>>
  \o SelectSeq(ChannelSetup,
               LAMBDA st : st[1] \notin ChannelBase(ch)..(ChannelBase(ch) + 4))

Channels(h) == <<h.apu.channel1, h.apu.channel2, h.apu.channel3, h.apu.channel4>>

\* The length timer and the enable flag of the run's channel
Before(h, ch) ==
  [length_timer |-> Channels(h)[ch].length_timer, enabled |-> Channels(h)[ch].enabled]

ApuInit ==
  /\ \E ch \in 1..4, step \in ApuSteps, dac \in BOOLEAN :
       /\ hw = write_bytes(
                 [Hardware_new(NopRom) EXCEPT
                    !.apu = ApuIdle(step * FRAME_SEQEUNCER_CYCLES
                                    + FRAME_SEQEUNCER_CYCLES - 2)],
                 OtherSetup(ch) \o (IF dac THEN <<DacOn(ch)>> ELSE <<>>))
       /\ hist = [op |-> "init", ticks |-> 0, writes |-> 0, ch |-> ch,
                  address |-> 0, value |-> 0,
                  before |-> [length_timer |-> 0, enabled |-> FALSE]]
  /\ cpu = Cpu_new

ApuTick ==
  /\ hist.ticks < MaxApuTicks
  /\ hw' = step_apu(hw)
  /\ hist' = [hist EXCEPT !.op = "tick", !.ticks = hist.ticks + 1,
                          !.before = Before(hw, hist.ch)]
  /\ UNCHANGED cpu

\* A store of the CPU to an APU register
ApuWrite(address, value) ==
  /\ hist.writes < MaxApuWrites
  /\ hw' = write_byte(hw, address, value)
  /\ hist' = [hist EXCEPT !.op = "write", !.writes = hist.writes + 1,
                          !.address = address, !.value = value,
                          !.before = Before(hw, hist.ch)]
  /\ UNCHANGED cpu

ApuNext ==
  \/ ApuTick
  \/ ApuWrite(ChannelBase(hist.ch) + 1, 63)
  \/ ApuWrite(DacOn(hist.ch)[1], DacOn(hist.ch)[2])
  \/ \E value \in {64, 128, 192} : ApuWrite(ChannelBase(hist.ch) + 4, value)
  \/ ApuWrite(65317, 51)
  \/ \E value \in {0, 128} : ApuWrite(NR52, value)

SpecApu == ApuInit /\ [][ApuNext]_vars

MaxLength(ch) == IF ch = 3 THEN WAVE_MAX_CHANNEL_TIMER_LENGTH ELSE MAX_CHANNEL_TIMER_LENGTH

\* The control registers NR14, NR24, NR34 and NR44
Controls(h) ==
  <<h.apu.channel1.nr14, h.apu.channel2.nr24, h.apu.channel3.nr34, h.apu.channel4.nr44>>

\* The step is a clock of the frame sequencer at an even step
ClockOfEvenStep ==
  /\ hist'.op = "tick"
  /\ hw'.apu.frame_sequencer_step # hw.apu.frame_sequencer_step
  /\ hw.apu.frame_sequencer_step % 2 = 0

\* The step is a store to NRx4 of channel ch while the next step is odd
ControlWriteBeforeOddStep(ch) ==
  /\ hist'.op = "write" /\ hist'.address = ChannelBase(ch) + 4
  /\ hw.apu.frame_sequencer_step % 2 = 1

\* The step is a store to the length register NRx1 of channel ch
LengthWrite(ch) == hist'.op = "write" /\ hist'.address = ChannelBase(ch) + 1

LengthClockedOrEdge(ch) ==
  \/ /\ ClockOfEvenStep
     /\ is_flag_set(Controls(hw)[ch], TIMER_LENGTH_ENABLE_MASK)
     /\ Channels(hw)[ch].length_timer > 0
  \/ ControlWriteBeforeOddStep(ch)

C35_Step ==
  \A ch \in 1..4 :
    /\ (~LengthWrite(ch) /\ Channels(hw')[ch].length_timer < Channels(hw)[ch].length_timer)
         => /\ Channels(hw')[ch].length_timer = Channels(hw)[ch].length_timer - 1
            /\ LengthClockedOrEdge(ch)
    /\ (Channels(hw)[ch].enabled /\ ~Channels(hw')[ch].enabled
        /\ Channels(hw)[ch].length_timer > 0 /\ Channels(hw')[ch].length_timer = 0)
         => LengthClockedOrEdge(ch)
    /\ Channels(hw)[ch].length_timer \in 0..MaxLength(ch)
    /\ Channels(hw')[ch].length_timer \in 0..MaxLength(ch)

\* C35: a length timer is decremented only at a frame-sequencer clock of an
\* even step, with its length-enable set and the timer non-zero, or by a
\* store to the channel's control register while the next step is odd; a
\* channel is disabled by its length timer reaching zero only in those two
\* situations; every length timer stays within 0..64 (0..256 for the wave
\* channel).
C35_LengthTimers == [][C35_Step]_vars

\* the clock of step 0 has run a length timer out and disabled the channel
C35_Witness ==
  /\ hist.op = "tick" /\ hw.apu.frame_sequencer_step = 1
  /\ hw.apu.frame_sequencer_cycles = 0
  /\ hist.before = [length_timer |-> 1, enabled |-> TRUE]
  /\ Before(hw, hist.ch) = [length_timer |-> 0, enabled |-> FALSE]

\* a store of the length enable before an odd step has done the same
DisabledByControlWrite ==
  /\ hist.op = "write" /\ hist.address = ChannelBase(hist.ch) + 4 /\ hist.value = 64
  /\ hw.apu.frame_sequencer_step = 1
  /\ hist.before = [length_timer |-> 1, enabled |-> TRUE]
  /\ Before(hw, hist.ch) = [length_timer |-> 0, enabled |-> FALSE]

\* The step is a store to NRx4 of the run's channel while the APU is on
ControlWrite ==
  /\ hist'.op = "write" /\ hist'.address = ChannelBase(hist.ch) + 4
  /\ Apu_is_enabled(hw.apu)

\* The store turns the length enable from 0 to 1 with a non-zero counter
\* while the next step is odd
EnableEdge ==
  /\ hw.apu.frame_sequencer_step % 2 = 1
  /\ ~is_flag_set(Controls(hw)[hist.ch], TIMER_LENGTH_ENABLE_MASK)
  /\ is_flag_set(hist'.value, TIMER_LENGTH_ENABLE_MASK)
  /\ Channels(hw)[hist.ch].length_timer > 0

\* The counter after the first decrement, if there is one
AfterEnableEdge ==
  IF EnableEdge THEN Channels(hw)[hist.ch].length_timer - 1
  ELSE Channels(hw)[hist.ch].length_timer

\* The counter the store leaves
AfterControlWrite ==
  IF is_flag_set(hist'.value, CHANNEL_TRIGGER_MASK) /\ AfterEnableEdge = 0
  THEN IF hw.apu.frame_sequencer_step % 2 = 1
          /\ is_flag_set(hist'.value, TIMER_LENGTH_ENABLE_MASK)
       THEN MaxLength(hist.ch) - 1
       ELSE MaxLength(hist.ch)
  ELSE AfterEnableEdge

C36_Step ==
  ControlWrite =>
    /\ Channels(hw')[hist.ch].length_timer = AfterControlWrite
    /\ ~is_flag_set(hist'.value, CHANNEL_TRIGGER_MASK) =>
         Channels(hw')[hist.ch].enabled =
           (Channels(hw)[hist.ch].enabled /\ ~(EnableEdge /\ AfterEnableEdge = 0))

\* C36: on a store to NRx4 while the next frame-sequencer step is odd, a
\* length enable going from 0 to 1 with a non-zero counter decrements the
\* counter once, and disables the channel if the counter becomes zero and the
\* store carries no trigger; a trigger with the counter zero at that point
\* reloads it to the maximum (64, 256 for the wave channel) and, when the
\* written length-enable bit is set, decrements it to maximum - 1.  Before an
\* even step neither decrement happens.
C36_ControlWriteEdges == [][C36_Step]_vars

\* trigger and length enable stored together before an odd step, counter 1:
\* decremented to 0, reloaded, decremented to maximum - 1
C36_Witness ==
  /\ hist.op = "write" /\ hist.address = ChannelBase(hist.ch) + 4 /\ hist.value = 192
  /\ hw.apu.frame_sequencer_step = 1 /\ Apu_is_enabled(hw.apu)
  /\ hist.before.length_timer = 1
  /\ Channels(hw)[hist.ch].length_timer = MaxLength(hist.ch) - 1

\* the same store before an even step: the counter stays 1
NoEdgeBeforeEvenStep ==
  /\ hist.op = "write" /\ hist.address = ChannelBase(hist.ch) + 4 /\ hist.value = 192
  /\ hw.apu.frame_sequencer_step = 0 /\ Apu_is_enabled(hw.apu)
  /\ hist.before.length_timer = 1
  /\ Channels(hw)[hist.ch].length_timer = 1

\* The audio registers of the four channels and the two mix registers
AudioRegisters(h) ==
  <<h.apu.channel1.nr10, h.apu.channel1.nr11, h.apu.channel1.nr12,
    h.apu.channel1.nr13, h.apu.channel1.nr14,
    h.apu.channel2.nr21, h.apu.channel2.nr22, h.apu.channel2.nr23,
    h.apu.channel2.nr24,
    h.apu.channel3.nr30, h.apu.channel3.nr31, h.apu.channel3.nr32,
    h.apu.channel3.nr33, h.apu.channel3.nr34,
    h.apu.channel4.nr41, h.apu.channel4.nr42, h.apu.channel4.nr43,
    h.apu.channel4.nr44,
    h.apu.nr50, h.apu.nr51>>

LengthCounters(h) == [ch \in 1..4 |-> Channels(h)[ch].length_timer]
Enabled(h) == {ch \in 1..4 : Channels(h)[ch].enabled}

ApuStore == hist'.op = "write"

\* The store clears the master-on bit of a running APU
SwitchesOff ==
  /\ ApuStore /\ hist'.address = NR52
  /\ Apu_is_enabled(hw.apu) /\ ~is_flag_set(hist'.value, APU_ENABLE_MASK)

\* The store sets the master-on bit of an APU that is off
SwitchesOn ==
  /\ ApuStore /\ hist'.address = NR52
  /\ ~Apu_is_enabled(hw.apu) /\ is_flag_set(hist'.value, APU_ENABLE_MASK)

\* The addresses that take a store while the APU is off: NR52, the four
\* length registers and wave RAM
WritableWhileOff ==
  {NR52} \cup {ChannelBase(ch) + 1 : ch \in 1..4} \cup (65328..65343)

\* The store goes to another audio register while the APU is off
IgnoredStore ==
  /\ ApuStore /\ ~Apu_is_enabled(hw.apu)
  /\ hist'.address \notin WritableWhileOff

C37_Step ==
  /\ SwitchesOff =>
       /\ AudioRegisters(hw') = [i \in 1..20 |-> 0]
       /\ Enabled(hw') = {}
       /\ hw'.apu.channel3.wave_ram = hw.apu.channel3.wave_ram
       /\ LengthCounters(hw') = LengthCounters(hw)
  /\ IgnoredStore => hw'.apu = hw.apu
  /\ (~Apu_is_enabled(hw.apu) /\ ~Apu_is_enabled(hw'.apu)) =>
       Enabled(hw') \subseteq Enabled(hw)
  /\ SwitchesOn => hw'.apu.frame_sequencer_step = 0

\* C37: a store that clears the master-on bit zeroes the audio registers of
\* the four channels and the two mix registers and disables the four
\* channels, leaving wave RAM and the length counters; while the APU is off a
\* store to an audio register other than NR52, a length register or wave RAM
\* changes no APU state, so that no channel becomes enabled; a store that
\* sets the master-on bit of an APU that is off resets the frame-sequencer
\* step to 0.
C37_MasterSwitch == [][C37_Step]_vars

\* The same with the stores to the noise channel's registers left out of the
\* second part: this is what the code does
C37_Step_but_noise ==
  /\ SwitchesOff =>
       /\ AudioRegisters(hw') = [i \in 1..20 |-> 0]
       /\ Enabled(hw') = {}
       /\ hw'.apu.channel3.wave_ram = hw.apu.channel3.wave_ram
       /\ LengthCounters(hw') = LengthCounters(hw)
  /\ (IgnoredStore /\ hist'.address \notin 65312..65315) => hw'.apu = hw.apu
  /\ (~Apu_is_enabled(hw.apu) /\ ~Apu_is_enabled(hw'.apu)) =>
       Enabled(hw') \ {4} \subseteq Enabled(hw)
  /\ SwitchesOn => hw'.apu.frame_sequencer_step = 0

MasterSwitchButNoise == [][C37_Step_but_noise]_vars

\* the APU was switched off with channels enabled and registers set
SwitchedOff ==
  /\ hist.op = "write" /\ hist.address = NR52 /\ hist.value = 0
  /\ hist.writes = 1 /\ hist.ticks = 0
  /\ ~Apu_is_enabled(hw.apu) /\ Enabled(hw) = {}
  /\ hw.apu.channel3.wave_ram = 65328 - 65328 :> 18
  /\ \A ch \in 1..4 : ch # hist.ch => LengthCounters(hw)[ch] >= MaxLength(ch) - 1

\* the noise channel was triggered while the APU is off
NoiseEnabledWhileOff ==
  /\ hist.op = "write" /\ hist.address = 65315 /\ hist.value = 128
  /\ ~Apu_is_enabled(hw.apu)
  /\ hw.apu.channel4.enabled /\ hw.apu.channel4.nr42 = 240

----------------------------------------------------------------------------
(* SpecFifo: the audio FIFO between the engine thread and the host's audio *)
(* callback (Apu::push_audio_sample, the closure of get_audio_stream in    *)
(* main.rs).  hw.apu.audio_buffer is the VecDeque; the owner of its mutex  *)
(* and the position of each thread are kept in hist, with the history of   *)
(* the samples: ids numbers the queued samples in the order of their push. *)
(* The engine thread steps the APU; the dot that produces a sample locks   *)
(* the mutex, pushes and unlocks.  A call of the callback locks the mutex, *)
(* pops one sample for each frame of its buffer and unlocks on return.     *)

MaxSamples == 3
CallbackFrames == 2

Silence == [left |-> 0, right |-> 0]

\* VecDeque::pop_back: a take from the wrong end, as <<sample, rest>>
pop_back_or_default(buffer) ==
  IF buffer = <<>> THEN <<Silence, <<>>>>
  ELSE <<buffer[Len(buffer)], SubSeq(buffer, 1, Len(buffer) - 1)>>

\* buffer.pop_front().unwrap_or_default(), as <<sample, rest>>
pop_front_or_default(buffer) ==
  IF buffer = <<>> THEN <<Silence, <<>>>>
  ELSE <<Head(buffer), Tail(buffer)>>

\* Channel 1 sounding on both sides at full volume, duty 75 %, period 2044:
\* its output is 15 for 96 dots, then 0 for 32 dots
Sounding ==
  <<<<65316, 119>>, <<65317, 17>>, <<65297, 192>>, <<65298, 240>>,
    <<65299, 252>>, <<65300, 135>>>>

\* The next dot of the APU produces a sample
NextPushes(h) == Apu_is_enabled(h.apu) /\ h.apu.dots + 1 >= SAMPLES_PER_CYCLE

FifoInit ==
  /\ \E setup \in {<<>>, Sounding} :
       hw = write_bytes(
              [Hardware_new(NopRom) EXCEPT !.apu = ApuIdle(3 * SAMPLES_PER_CYCLE - 2)],
              setup)
  /\ cpu = Cpu_new
  /\ hist = [op |-> "init", engine |-> "run", callback |-> "idle", mutex |-> "free",
             frames |-> 0, pushed |-> 0, ids |-> <<>>,
             enqueued |-> <<>>, delivered |-> <<>>,
             out |-> [id |-> 0, sample |-> Silence, empty |-> TRUE]]

\* A dot of the engine that produces no sample
EngineDot ==
  /\ hist.engine = "run" /\ ~NextPushes(hw) /\ hist.pushed < MaxSamples
  /\ hw' = step_apu(hw)
  /\ hist' = [hist EXCEPT !.op = "dot"]
  /\ UNCHANGED cpu

\* audio_buffer.lock() of push_audio_sample returns
EngineLock ==
  /\ hist.engine = "run" /\ NextPushes(hw) /\ hist.pushed < MaxSamples
  /\ hist.mutex = "free"
  /\ hist' = [hist EXCEPT !.op = "engine lock", !.engine = "locked", !.mutex = "engine"]
  /\ UNCHANGED <<hw, cpu>>

\* push_back
EnginePush ==
  /\ hist.engine = "locked"
  /\ hw' = step_apu(hw)
  /\ hist' = [hist EXCEPT !.op = "push", !.engine = "pushed",
                          !.pushed = hist.pushed + 1,
                          !.ids = Append(hist.ids, hist.pushed + 1),
                          !.enqueued =
                            Append(hist.enqueued,
                                   hw'.apu.audio_buffer[Len(hw'.apu.audio_buffer)])]
  /\ UNCHANGED cpu

\* the guard is dropped at the end of the statement
EngineUnlock ==
  /\ hist.engine = "pushed"
  /\ hist' = [hist EXCEPT !.op = "engine unlock", !.engine = "run", !.mutex = "free"]
  /\ UNCHANGED <<hw, cpu>>

\* the host calls the closure, which calls audio_buffer.lock(); it does so
\* as often as it likes
CallbackStart ==
  /\ hist.callback = "idle"
  /\ hist' = [hist EXCEPT !.op = "call", !.callback = "waiting"]
  /\ UNCHANGED <<hw, cpu>>

CallbackLock ==
  /\ hist.callback = "waiting" /\ hist.mutex = "free"
  /\ hist' = [hist EXCEPT !.op = "callback lock", !.callback = "locked",
                          !.mutex = "callback", !.frames = CallbackFrames]
  /\ UNCHANGED <<hw, cpu>>

\* one turn of the loop over the frames of the host's buffer
CallbackPop ==
  /\ hist.callback = "locked" /\ hist.frames > 0
  /\ hw' = [hw EXCEPT !.apu.audio_buffer = pop_front_or_default(@)[2]]
  /\ hist' = [hist EXCEPT
       !.op = "pop", !.frames = hist.frames - 1,
       !.ids = IF Len(hw'.apu.audio_buffer) < Len(hw.apu.audio_buffer)
               THEN SubSeq(hist.ids, Len(hist.ids) - Len(hw'.apu.audio_buffer) + 1,
                           Len(hist.ids))
               ELSE hist.ids,
       !.delivered = IF hw.apu.audio_buffer = <<>> THEN hist.delivered
                     ELSE Append(hist.delivered, Head(hist.ids)),
       !.out = [id |-> IF hw.apu.audio_buffer = <<>> THEN 0 ELSE Head(hist.ids),
                sample |-> pop_front_or_default(hw.apu.audio_buffer)[1],
                empty |-> hw.apu.audio_buffer = <<>>]]
  /\ UNCHANGED cpu

\* the closure returns and drops the guard
CallbackUnlock ==
  /\ hist.callback = "locked" /\ hist.frames = 0
  /\ hist' = [hist EXCEPT !.op = "callback unlock", !.callback = "idle",
                          !.mutex = "free"]
  /\ UNCHANGED <<hw, cpu>>

FifoNext ==
  \/ EngineDot
  \/ EngineLock
  \/ EnginePush
  \/ EngineUnlock
  \/ CallbackStart
  \/ CallbackLock
  \/ CallbackPop
  \/ CallbackUnlock

\* Each thread goes on while it can, and a thread waiting in lock() gets the
\* mutex if it is free again and again: the other thread holds it for one
\* push or for one buffer of frames at a time.  The host need not call the
\* callback.
FifoFairness ==
  /\ WF_vars(EngineDot) /\ SF_vars(EngineLock) /\ WF_vars(EnginePush)
  /\ WF_vars(EngineUnlock)
  /\ SF_vars(CallbackLock) /\ WF_vars(CallbackPop) /\ WF_vars(CallbackUnlock)

SpecFifo == FifoInit /\ [][FifoNext]_vars /\ FifoFairness

EngineWaits == hist.engine = "run" /\ NextPushes(hw) /\ hist.pushed < MaxSamples
CallbackWaits == hist.callback = "waiting"

\* The ids delivered so far are 1, 2, ..., in this order
DeliveredInOrder(h) == \A i \in DOMAIN h.delivered : h.delivered[i] = i

C38_Step_common ==
  /\ hist'.op = "push" =>
       /\ Len(hw'.apu.audio_buffer) = Len(hw.apu.audio_buffer) + 1
       /\ SubSeq(hw'.apu.audio_buffer, 1, Len(hw.apu.audio_buffer)) = hw.apu.audio_buffer
  /\ (hist'.op = "pop" /\ hw.apu.audio_buffer # <<>>) =>
       /\ hist'.out.sample = hist.enqueued[hist'.out.id]
       /\ hist'.out.id = Head(hist.ids)
       /\ hw'.apu.audio_buffer = Tail(hw.apu.audio_buffer)
  /\ hist'.op \notin {"push", "pop"} => hw'.apu.audio_buffer = hw.apu.audio_buffer
  /\ DeliveredInOrder(hist')
  /\ Len(hist'.ids) = Len(hw'.apu.audio_buffer)
  /\ (hist.mutex = "engine") = (hist.engine \in {"locked", "pushed"})
  /\ (hist.mutex = "callback") = (hist.callback = "locked")

C38_Step_as_stated ==
  /\ C38_Step_common
  /\ hist'.op = "pop" => ((hist'.out.sample = Silence) <=> hw.apu.audio_buffer = <<>>)

C38_Step ==
  /\ C38_Step_common
  /\ (hist'.op = "pop" /\ hw.apu.audio_buffer = <<>>) =>
       /\ hist'.out.sample = Silence
       /\ hw'.apu.audio_buffer = <<>>
  /\ (hist'.op = "pop" /\ hist'.out.sample # Silence) => hw.apu.audio_buffer # <<>>

SilenceOnEmptyQueue ==
  /\ hist.op = "pop" /\ hist.out = [id |-> 0, sample |-> Silence, empty |-> TRUE]
  /\ EngineWaits

\* the callback delivered a silent sample that the engine had pushed
SilentSampleDelivered ==
  /\ hist.op = "pop" /\ hist.out.id = 1 /\ hist.out.sample = Silence
  /\ ~hist.out.empty

----------------------------------------------------------------------------
(* Sprite selection: which OAM entries Ppu::render_sprites draws on a      *)
(* line.  Every entry has its own eight columns of the screen, so that the *)
(* frame buffer shows which entries were drawn.                            *)

SelectSlots == 0..11

\* Y bytes of the entries: hidden (0, 160), partly above the top of the
\* screen (10), at the top (16) and five lines below it (21)
SelectYs == {0, 10, 16, 21, 160}

SelectLines == {0, 5, 9, 13}

MaxSelectDots == 2

\* tiles 2 and 3 are colour 1 throughout
SelectTileData == [i \in {j \in 32..63 : j % 2 = 0} |-> 255]

\* entry n is at columns 8 * n .. 8 * n + 7, with tile 2
SelectOam(ys) ==
  [i \in {j \in 0..47 : j % 4 # 3 /\ (j % 4 # 0 \/ ys[j \div 4] # 0)} |->
     CASE i % 4 = 0 -> ys[i \div 4]
       [] i % 4 = 1 -> 8 + 8 * (i \div 4)
       [] i % 4 = 2 -> 2]

SelectInit ==
  /\ \E a \in SelectYs, b \in SelectYs, c \in SelectYs, line \in SelectLines,
        tall \in BOOLEAN :
       hw = [Hardware_new(NopRom) EXCEPT
               !.ppu.lcdc = LcdDisplay + SpriteDisplay
                            + (IF tall THEN SpriteDimensions ELSE 0),
               !.ppu.stat = PixelTransfer,
               !.ppu.counter = 171,
               !.ppu.ly = line,
               !.ppu.obp0 = 228,
               !.ppu.memory = SelectTileData,
               !.ppu.oam = SelectOam([n \in SelectSlots |->
                                        IF n = 0 THEN a ELSE IF n = 1 THEN b ELSE c])]
  /\ cpu = Cpu_new
  /\ hist = [op |-> "init", dots |-> 0]

SelectPpuStep ==
  /\ hist.dots < MaxSelectDots
  /\ hw' = step_ppu(hw)
  /\ hist' = [op |-> "ppu", dots |-> hist.dots + 1]
  /\ UNCHANGED cpu

SelectNext == SelectPpuStep

SpecSelect == SelectInit /\ [][SelectNext]_vars

\* the Y byte of an entry and the lines it spans, [y - 16, y - 16 + height)
RawY(slot) == ArrayGet(hw.ppu.oam, 4 * slot)

SpansLine(slot) ==
  hw.ppu.ly - (RawY(slot) - 16) \in 0..(sprite_height(hw.ppu) - 1)

Hidden(slot) == RawY(slot) = 0 \/ RawY(slot) >= 160

OnLine == {slot \in SelectSlots : ~Hidden(slot) /\ SpansLine(slot)}

\* the first ten of a set of entries, in OAM order
FirstTen(slots) ==
  {slot \in slots :
     Cardinality({other \in slots : other < slot}) < MAX_SCANLINE_SPRITES}

\* the entries the frame buffer shows on the line
Drawn == {slot \in SelectSlots : BufferPixel(hw.ppu.ly, 8 * slot) # 0}

SelectRendered == hist.op = "ppu"

\* C39: on a rendered line the sprites drawn are exactly the first ten OAM
\* entries, in OAM order, whose span [y - 16, y - 16 + height) contains LY,
\* entries partly above the top of the screen (Y byte below 16) included;
\* entries with Y byte 0 or of 160 and more are skipped and do not count.
C39_SpriteSelection == SelectRendered => Drawn = FirstTen(OnLine)

\* the same selection among entries that start on the screen (Y byte of 16
\* and more): the entries above the top are never drawn
SelectionOnScreen ==
  SelectRendered => Drawn = FirstTen({slot \in OnLine : RawY(slot) >= 16})

\* twelve entries are on the line and the first ten are drawn
TenDrawn ==
  /\ SelectRendered
  /\ OnLine = SelectSlots
  /\ Drawn = 0..9

\* a hidden entry does not count: entry 0 is hidden, entries 1 to 10 are drawn
HiddenNotCounted ==
  /\ SelectRendered
  /\ Hidden(0) /\ OnLine = 1..11
  /\ Drawn = 1..10

\* a 16-line entry with Y byte 10 spans line 5 and is not drawn
AboveTopNotDrawn ==
  /\ SelectRendered
  /\ RawY(0) = 10 /\ hw.ppu.ly = 5 /\ sprite_height(hw.ppu) = 16
  /\ 0 \in OnLine /\ 0 \notin Drawn

----------------------------------------------------------------------------
(* Totality of the bus: loads and stores at every region of the address    *)
(* space, for the cartridge images Hardware::new accepts.                  *)

\* image lengths: 336 bytes (the header and no more), one bank, two banks
TotalRomLens == {336, 16384, 32768}

\* an image of the length with the cartridge-type byte (0x147)
TotalRom(type, len) ==
  [len |-> len, base |-> 327, code |-> <<type>>, data |-> 16384]

\* the PPU at power-on, and with the LCD on one dot before the end of OAM
\* scan and of pixel transfer
TotalPpuPoints == {<<0, OamScan, 0>>, <<LcdDisplay, OamScan, 79>>,
                   <<LcdDisplay, PixelTransfer, 171>>}

\* the ends of every arm of read_byte and write_byte, the ends of an image,
\* every I/O register and the interrupt enable register
TotalAddresses ==
  {0, 327, 335, 336, 16383, 16384, 32767, 32768, 40959, 40960, 49151, 49152,
   57343, 57344, 65023, 65024, 65183, 65184, 65279, 65408, 65534, 65535}
    \cup (65280..65407)

TotalValues == {0, 255}

\* stores that change what the decoders look at: MBC1 control, external
\* RAM, joypad, timer, APU, LCD control and status, DMA, interrupt enable
TotalStores ==
  {<<0, 10>>, <<8192, 31>>, <<16384, 3>>, <<24576, 0>>, <<40960, 77>>,
   <<65280, 0>>, <<65287, 7>>, <<65318, 128>>, <<65318, 0>>, <<65298, 240>>,
   <<65300, 192>>, <<65306, 128>>, <<65310, 192>>, <<65344, 0>>, <<65344, 128>>,
   <<65345, 255>>, <<65350, 192>>, <<65535, 31>>}

TotalReads == {0, 335, 336, 16384, 32767, 40960, 65280, 65318}

MaxTotalSteps == 3

TotalInit ==
  /\ \E type \in 0..3, len \in TotalRomLens, pt \in TotalPpuPoints :
       hw = [Hardware_new(TotalRom(type, len)) EXCEPT !.ppu.lcdc = pt[1],
                                                      !.ppu.stat = pt[2],
                                                      !.ppu.counter = pt[3]]
  /\ cpu = Cpu_new
  /\ hist = [op |-> "init", n |-> 0, address |-> 0, value |-> 0]

\* no step is taken after a panic
TotalRunning == hist.op # "panic" /\ hist.n < MaxTotalSteps

\* Hardware::write_byte called by a store of the CPU
TotalWrite ==
  \E store \in TotalStores :
    /\ TotalRunning
    /\ hw' = write_byte(hw, store[1], store[2])
    /\ hist' = [op |-> "write", n |-> hist.n + 1, address |-> store[1],
                value |-> store[2]]
    /\ UNCHANGED cpu

\* Hardware::read_byte called by a load of the CPU: the unwrap of
\* RomOnly::read_rom on None ends the program
TotalRead ==
  \E address \in TotalReads :
    /\ TotalRunning
    /\ hist' = [op |-> IF read_byte(hw, address) = -1 THEN "panic" ELSE "read",
                n |-> hist.n + 1, address |-> address,
                value |-> read_byte(hw, address)]
    /\ UNCHANGED <<hw, cpu>>

\* Hardware::step_ppu
TotalPpuStep ==
  /\ TotalRunning
  /\ hw' = step_ppu(hw)
  /\ hist' = [op |-> "ppu", n |-> hist.n + 1, address |-> 0, value |-> 0]
  /\ UNCHANGED cpu

TotalNext == TotalWrite \/ TotalRead \/ TotalPpuStep

SpecTotal == TotalInit /\ [][TotalNext]_vars

ReadsByte(h, address) == read_byte(h, address) \in 0..255

WriteCompletes(h, address, value) ==
  DOMAIN write_byte(h, address, value) = DOMAIN h

\* C40: for every accepted cartridge image (type byte 0x00 to 0x03), images
\* shorter than 32 KiB included, in every reachable state a load of any
\* address returns a byte and a store to any address completes: nothing
\* panics.
C40_BusTotal ==
  /\ hist.op # "panic"
  /\ \A address \in TotalAddresses :
       /\ ReadsByte(hw, address)
       /\ \A value \in TotalValues : WriteCompletes(hw, address, value)

\* an image that covers the addresses of the ROM arm it is read through:
\* any MBC1 image, and a ROM-only image of 32 KiB
CoversRomArm(h) == h.cartridge.kind = "Mbc1" \/ h.cartridge.rom.len >= 32768

\* loads and stores are total for such images
BusTotalOnFullImages ==
  CoversRomArm(hw) =>
    /\ hist.op # "panic"
    /\ \A address \in TotalAddresses :
         /\ ReadsByte(hw, address)
         /\ \A value \in TotalValues : WriteCompletes(hw, address, value)

\* stores never panic, and loads outside the ROM arm return a byte, for
\* every image
BusTotalOutsideRom ==
  \A address \in TotalAddresses :
    /\ address >= 32768 => ReadsByte(hw, address)
    /\ \A value \in TotalValues : WriteCompletes(hw, address, value)

\* a ROM-only image of 336 bytes was read at its first missing byte
ShortRomOnlyPanics ==
  /\ hist.op = "panic" /\ hist.address = 336
  /\ hw.cartridge.kind = "RomOnly" /\ hw.cartridge.rom.len = 336

\* an MBC1 image of 336 bytes read at the same address returns 0xFF
ShortMbc1Reads ==
  /\ hist.op = "read" /\ hist.address = 336 /\ hist.value = 255
  /\ hw.cartridge.kind = "Mbc1" /\ hw.cartridge.rom.len = 336

\* the last byte of a short ROM-only image is read
ShortRomOnlyReads ==
  /\ hist.op = "read" /\ hist.address = 335 /\ hist.value = 0
  /\ hw.cartridge.kind = "RomOnly" /\ hw.cartridge.rom.len = 336

====
